---- MODULE Spec2Model ----
(***************************************************************************)
(* Model of the translation engine of lv-py (Logstash -> Vector):          *)
(*   parser/logstash_parser_regex.py  parse_file_regex (final validation)  *)
(*   transformers/__init__.py         registry, guidance, transform_config *)
(*   transformers/{inputs,filters,outputs}.py  the built-in transformers   *)
(*   migration.py                     migrate_config                       *)
(*   models/*.py                      the records and their validators     *)
(*                                                                         *)
(* Strings.  An identifier-like string (plugin name, component id) is the  *)
(* sequence of its segments between underscores, i.e. what                 *)
(* str.split("_") returns: "file_input_0" is <<"file","input","0">>.       *)
(* Two such strings are equal iff their segment sequences are equal, so    *)
(* f"{name}_input_{idx}" is  name \o <<"input", IdxStr(idx)>>.             *)
(* A line of free text is a sequence of tokens.                            *)
(*                                                                         *)
(* Values.  A decoded setting value (_parse_value) is a record             *)
(* [t, v]: t is its Python type ("str","list","dict","bool","int"), v the  *)
(* sequence of its texts (a dict is flattened to k1,v1,k2,v2,...).         *)
(***************************************************************************)
EXTENDS Naturals, Sequences, FiniteSets, TLC

\* one call of an orchestrator (migrate_config or transform_config)
VARIABLES fn, doc, pc, idx, locals, ret

\* the module-level table PLUGIN_REGISTRY of transformers/__init__.py
VARIABLES registry

\* one run over a directory (api.migrate_directory or the CLI's migrate)
VARIABLES command, options, conf_files, fsys, bpc, bi, result, cur

\* one call of parse_file_regex on a text
VARIABLES raw_content, ppc, blocks, bk, parsed

\* the history of register_transformer calls: per (role, name), the
\* transformer of the latest call
VARIABLES latest

\* migrate_config calls running side by side, each with its own frame
VARIABLES calls

\* one transformer applied to one plugin: the plugin, the position, the
\* value transform() gave
VARIABLES unit

callVars == <<fn, doc, pc, idx, locals, ret>>

batchVars == <<command, options, conf_files, fsys, bpc, bi, result, cur>>

parseVars == <<raw_content, ppc, blocks, bk, parsed>>

\* what a single call of an orchestrator leaves alone
nonCallVars == <<registry, batchVars, parseVars, latest, calls, unit>>

\* what a directory run leaves alone
nonBatchVars == <<callVars, registry, parseVars, latest, calls, unit>>

\* what the parser leaves alone
nonParseVars == <<callVars, registry, batchVars, latest, calls, unit>>

\* what register_transformer leaves alone
nonRegistryVars == <<callVars, batchVars, parseVars, calls, unit>>

\* what concurrent migrate_config calls leave alone
nonConcVars == <<callVars, registry, batchVars, parseVars, latest, unit>>

\* what a single transform() call leaves alone
nonUnitVars == <<callVars, registry, batchVars, parseVars, latest, calls>>

vars == <<callVars, registry, batchVars, parseVars, latest, calls, unit>>

(* ---------------- bounds ---------------- *)

\* largest number of plugin declarations in one document
MaxPlugins == 4

(* ---------------- generic helpers ---------------- *)

Range(s) == {s[i] : i \in 1..Len(s)}

RECURSIVE Flatten(_)
Flatten(ss) == IF ss = <<>> THEN <<>> ELSE Head(ss) \o Flatten(Tail(ss))

\* seq with the element at position i removed
RemoveAt(s, i) == [j \in 1..(Len(s) - 1) |-> IF j < i THEN s[j] ELSE s[j + 1]]

\* str(idx) for the indices the model reaches
IdxStr(i) ==
  CASE i = 0 -> "0" [] i = 1 -> "1" [] i = 2 -> "2" [] i = 3 -> "3"
    [] i = 4 -> "4" [] i = 5 -> "5" [] i = 6 -> "6" [] OTHER -> "7"

\* a name written inside a line of text: its segments joined by "_"
RECURSIVE JoinName(_)
JoinName(n) ==
  IF Len(n) <= 1 THEN n ELSE <<Head(n), "_">> \o JoinName(Tail(n))

(* ---------------- Python dict (insertion ordered) ---------------- *)

\* a dict is a sequence of <<key, value>> pairs with distinct keys
DictKeys(d) == {d[i][1] : i \in 1..Len(d)}

DictHas(d, k) == \E i \in 1..Len(d) : d[i][1] = k

DictGet(d, k) == d[CHOOSE i \in 1..Len(d) : d[i][1] = k][2]

\* d[k] = v : overwrites in place when k is present, else appends
DictSet(d, k, v) ==
  IF DictHas(d, k)
  THEN [i \in 1..Len(d) |-> IF d[i][1] = k THEN <<k, v>> ELSE d[i]]
  ELSE Append(d, <<k, v>>)

(* ---------------- models/__init__.py ---------------- *)

PluginType == {"input", "filter", "output"}

ComponentType == {"source", "transform", "sink"}

ErrorType == {"parse_error", "validation_error", "transformation_error"}

(* ---------------- models/vector_config.py ---------------- *)

VectorComponent(ctype, kind, config, inputs, comments) ==
  [component_type |-> ctype, component_kind |-> kind, config |-> config,
   inputs |-> inputs, comments |-> comments]

\* TRUE iff validate_final returns without raising
validate_final(c) ==
  /\ ~(c.component_type = "source" /\ Len(c.inputs) > 0)
  /\ ~(c.component_type \in {"transform", "sink"} /\ Len(c.inputs) = 0)

\* TRUE iff VectorConfiguration(...) is constructed: min_length=1 on sources
\* and sinks, then the model validator over every component
VectorConfigurationOk(sources, transforms, sinks) ==
  /\ Len(sources) >= 1
  /\ Len(sinks) >= 1
  /\ \A i \in 1..Len(sources) : validate_final(sources[i][2])
  /\ \A i \in 1..Len(transforms) : validate_final(transforms[i][2])
  /\ \A i \in 1..Len(sinks) : validate_final(sinks[i][2])

(* ---------------- decoded values (parser: _parse_value) ---------------- *)

\* a text is a sequence of tokens; the substrings the code looks for
\* ("%{", "-", "http://", "https://") are tokens of their own
Str(text) == [t |-> "str", v |-> <<text>>]

Int(tok) == [t |-> "int", v |-> <<<<tok>>>>]

Bool(tok) == [t |-> "bool", v |-> <<<<tok>>>>]

List(texts) == [t |-> "list", v |-> texts]

\* texts = k1, v1, k2, v2, ...
Dict(texts) == [t |-> "dict", v |-> texts]

RECURSIVE JoinTexts(_, _, _)
JoinTexts(texts, open, close) ==
  IF texts = <<>> THEN <<>>
  ELSE <<open>> \o Head(texts) \o <<close>>
       \o (IF Len(texts) > 1 THEN <<", ">> ELSE <<>>)
       \o JoinTexts(Tail(texts), open, close)

RECURSIVE JoinPairs(_)
JoinPairs(texts) ==
  IF Len(texts) < 2 THEN <<>>
  ELSE <<"'">> \o texts[1] \o <<"': '">> \o texts[2] \o <<"'">>
       \o (IF Len(texts) > 2 THEN <<", ">> ELSE <<>>)
       \o JoinPairs(Tail(Tail(texts)))

\* str(value) / f"{value}" of a decoded value
PyStr(val) ==
  CASE val.t \in {"str", "int", "bool"} -> val.v[1]
    [] val.t = "list" -> <<"[">> \o JoinTexts(val.v, "'", "'") \o <<"]">>
    [] OTHER -> <<"{">> \o JoinPairs(val.v) \o <<"}">>

\* repr(value): as str() but a str is quoted
PyRepr(val) ==
  IF val.t = "str" THEN <<"'">> \o val.v[1] \o <<"'">> ELSE PyStr(val)

\* what "for x in value" yields; iterating an int or a bool raises TypeError
Iterable(val) == val.t \in {"str", "list", "dict"}

\* the keys of a decoded dict, in order
RECURSIVE DictValKeys(_)
DictValKeys(texts) ==
  IF Len(texts) < 2 THEN <<>> ELSE <<texts[1]>> \o DictValKeys(Tail(Tail(texts)))

\* config.get(key, default)
ConfigGet(config, key, default) ==
  IF DictHas(config, key) THEN DictGet(config, key) ELSE default

(* ---------------- models/logstash_config.py ---------------- *)

LogstashPlugin(ptype, name, config, line) ==
  [plugin_type |-> ptype, plugin_name |-> name, config |-> config,
   line_number |-> line]

\* a transform() call: either a component or an exception
Returned(c) == [ok |-> TRUE, comp |-> c]

Raised == [ok |-> FALSE, comp |-> VectorComponent("source", <<>>, <<>>, <<>>, <<>>)]

(* ---------------- text helpers used by the transformers ---------------- *)

\* "\n".join(lines)
RECURSIVE JoinLines(_)
JoinLines(lines) ==
  IF lines = <<>> THEN <<>>
  ELSE Head(lines) \o (IF Len(lines) > 1 THEN <<"\n">> ELSE <<>>)
       \o JoinLines(Tail(lines))

\* the <<key, value>> pairs of a decoded dict
RECURSIVE Pairs(_)
Pairs(texts) ==
  IF Len(texts) < 2 THEN <<>>
  ELSE <<<<texts[1], texts[2]>>>> \o Pairs(Tail(Tail(texts)))

\* text.split(tok)[0]
RECURSIVE SplitHead(_, _)
SplitHead(text, tok) ==
  IF text = <<>> \/ Head(text) = tok THEN <<>>
  ELSE <<Head(text)>> \o SplitHead(Tail(text), tok)

\* text.rstrip(tok)
RECURSIVE RStrip(_, _)
RStrip(text, tok) ==
  IF text # <<>> /\ text[Len(text)] = tok
  THEN RStrip(SubSeq(text, 1, Len(text) - 1), tok)
  ELSE text

\* "%{" in value, for the value types on which "in" does not raise
HasTemplate(val) ==
  CASE val.t = "str" -> "%{" \in Range(val.v[1])
    [] val.t = "list" -> <<"%{">> \in Range(val.v)
    [] OTHER -> <<"%{">> \in Range(DictValKeys(val.v))

(* ---------------- transformers/inputs.py ---------------- *)

FileInputTransformer(plugin) ==
  LET config == plugin.config
      include ==
        IF DictHas(config, "path")
        THEN LET path_value == DictGet(config, "path") IN
             IF path_value.t = "str"
             THEN <<<<"include", List(<<path_value.v[1]>>)>>>>
             ELSE IF path_value.t = "list"
                  THEN <<<<"include", path_value>>>>
                  ELSE <<>>
        ELSE <<<<"include", List(<<<<"/var/log/*.log">>>>)>>>>
      start_position == ConfigGet(config, "start_position", Str(<<"end">>))
      read_from ==
        IF start_position = Str(<<"beginning">>)
        THEN Str(<<"beginning">>) ELSE Str(<<"end">>)
  IN Returned(VectorComponent("source", <<"file">>,
                              include \o <<<<"read_from", read_from>>>>,
                              <<>>, <<>>))

BeatsInputTransformer(plugin) ==
  LET config == plugin.config
      port == ConfigGet(config, "port", Int("5044"))
      host == ConfigGet(config, "host", Str(<<"0.0.0.0">>))
      address == PyStr(host) \o <<":">> \o PyStr(port)
  IN Returned(VectorComponent("source", <<"socket">>,
       <<<<"address", Str(address)>>, <<"mode", Str(<<"tcp">>)>>>>,
       <<>>,
       <<<<"NOTE: Beats input migrated to TCP socket">>,
         <<"For full Beats protocol support, consider using Filebeat -> Vector directly">>>>))

(* ---------------- transformers/filters.py ---------------- *)

GrokFilterTransformer(plugin) ==
  LET config == plugin.config
      match_config == ConfigGet(config, "match", Dict(<<>>))
      ps == IF match_config.t = "dict" THEN Pairs(match_config.v) ELSE <<>>
      vrl_lines ==
        [i \in 1..Len(ps) |->
           <<". = parse_groks!(.">> \o ps[i][1] \o <<", ['">> \o ps[i][2]
             \o <<"'])">>]
      lines == IF vrl_lines = <<>> THEN <<<<"# TODO: Add grok patterns">>>>
               ELSE vrl_lines
  IN Returned(VectorComponent("transform", <<"remap">>,
                              <<<<"source", Str(JoinLines(lines))>>>>,
                              <<>>, <<>>))

MutateTypeMap(target_type) ==
  CASE target_type = <<"integer">> -> "int"
    [] target_type = <<"float">> -> "float"
    [] target_type = <<"string">> -> "string"
    [] target_type = <<"boolean">> -> "bool"
    [] OTHER -> "string"

MutateFilterTransformer(plugin) ==
  LET config == plugin.config
      has(k) == DictHas(config, k)
      dictOf(k) == IF has(k) /\ DictGet(config, k).t = "dict"
                   THEN Pairs(DictGet(config, k).v) ELSE <<>>
      rf == DictGet(config, "remove_field")
      remove_fields ==
        IF ~has("remove_field") THEN <<>>
        ELSE IF rf.t = "str" THEN <<rf.v[1]>>
        ELSE IF rf.t = "list" THEN rf.v
        ELSE DictValKeys(rf.v)
      removes == [i \in 1..Len(remove_fields) |->
                    <<"del(.">> \o remove_fields[i] \o <<")">>]
      rn == dictOf("rename")
      renames == Flatten([i \in 1..Len(rn) |->
                   <<<<".">> \o rn[i][2] \o <<" = .">> \o rn[i][1],
                     <<"del(.">> \o rn[i][1] \o <<")">>>>])
      af == dictOf("add_field")
      adds == [i \in 1..Len(af) |->
                 <<".">> \o af[i][1] \o <<" = \"">> \o af[i][2] \o <<"\"">>]
      cv == dictOf("convert")
      converts == [i \in 1..Len(cv) |->
                     <<".">> \o cv[i][1] \o <<" = to_", MutateTypeMap(cv[i][2]), "!(.">>
                       \o cv[i][1] \o <<")">>]
      vrl_lines == removes \o renames \o adds \o converts
      lines == IF vrl_lines = <<>> THEN <<<<"# TODO: Add mutate operations">>>>
               ELSE vrl_lines
  IN IF has("remove_field") /\ ~Iterable(rf)
     THEN Raised   \* TypeError: 'int' object is not iterable
     ELSE Returned(VectorComponent("transform", <<"remap">>,
                                   <<<<"source", Str(JoinLines(lines))>>>>,
                                   <<>>, <<>>))

DateFormatMap(date_format) ==
  CASE date_format = <<"ISO8601">> -> <<"%+">>
    [] date_format = <<"UNIX">> -> <<"%s">>
    [] date_format = <<"UNIX_MS">> -> <<"%s">>
    [] OTHER -> date_format

DateFilterTransformer(plugin) ==
  LET config == plugin.config
      match_config == ConfigGet(config, "match", List(<<>>))
      target_field == PyStr(ConfigGet(config, "target", Str(<<"@timestamp">>)))
      lines ==
        IF match_config.t = "list" /\ Len(match_config.v) >= 2
        THEN <<<<".">> \o target_field \o <<" = parse_timestamp!(.">>
                \o match_config.v[1] \o <<", format: \"">>
                \o DateFormatMap(match_config.v[2]) \o <<"\")">>>>
        ELSE <<<<"# TODO: Configure date parsing">>>>
  IN Returned(VectorComponent("transform", <<"remap">>,
                              <<<<"source", Str(JoinLines(lines))>>>>,
                              <<>>, <<>>))

(* ---------------- transformers/outputs.py ---------------- *)

\* "%{" in index raises TypeError on an int or a bool; index.split raises
\* AttributeError on a list or a dict in which "%{" was found
IndexRaises(index) ==
  \/ index.t \in {"int", "bool"}
  \/ index.t \in {"list", "dict"} /\ HasTemplate(index)

ElasticsearchOutputTransformer(plugin) ==
  LET config == plugin.config
      has(k) == DictHas(config, k)
      hv == DictGet(config, "hosts")
      hosts == IF hv.t = "str" THEN <<hv.v[1]>>
               ELSE IF hv.t = "list" THEN hv.v
               ELSE DictValKeys(hv.v)
      endpoints ==
        IF has("hosts")
        THEN [i \in 1..Len(hosts) |->
                IF hosts[i] # <<>> /\ Head(hosts[i]) \in {"http://", "https://"}
                THEN hosts[i] ELSE <<"http://">> \o hosts[i]]
        ELSE <<<<"http://", "localhost:9200">>>>
      index == DictGet(config, "index")
      indexCfg ==
        IF ~has("index") THEN <<>>
        ELSE IF index.t = "str" /\ HasTemplate(index)
             THEN <<<<"index", Str(RStrip(SplitHead(index.v[1], "%{"), "-"))>>>>
             ELSE <<<<"index", index>>>>
      authCfg ==
        IF has("user") \/ has("password")
        THEN <<<<"auth", Dict(<<<<"strategy">>, <<"basic">>,
                 <<"user">>, PyStr(ConfigGet(config, "user", Str(<<"elastic">>))),
                 <<"password">>, PyStr(ConfigGet(config, "password", Str(<<>>)))>>)>>>>
        ELSE <<>>
      comments ==
        IF has("index") /\ HasTemplate(index)
        THEN <<<<"TODO: Convert Logstash index template '">> \o PyStr(index)
                \o <<"' to Vector format">>>>
        ELSE <<>>
  IN IF \/ has("hosts") /\ ~Iterable(hv)
        \/ has("index") /\ IndexRaises(index)
     THEN Raised
     ELSE Returned(VectorComponent("sink", <<"elasticsearch">>,
            <<<<"endpoints", List(endpoints)>>, <<"mode", Str(<<"bulk">>)>>>>
              \o indexCfg \o authCfg,
            <<>>, comments))

FileCodecMap(codec) ==
  CASE codec = Str(<<"json">>) -> "json"
    [] codec = Str(<<"json_lines">>) -> "json"
    [] codec = Str(<<"line">>) -> "text"
    [] codec = Str(<<"plain">>) -> "text"
    [] codec = Str(<<"rubydebug">>) -> "json"
    [] OTHER -> "json"

FileOutputTransformer(plugin) ==
  LET config == plugin.config
      path == ConfigGet(config, "path", Str(<<"/var/log/vector-output.log">>))
      codec == ConfigGet(config, "codec", Str(<<"json_lines">>))
  IN IF codec.t \in {"list", "dict"}
     THEN Raised   \* TypeError: unhashable type
     ELSE Returned(VectorComponent("sink", <<"file">>,
            <<<<"path", path>>,
              <<"encoding", Dict(<<<<"codec">>, <<FileCodecMap(codec)>>>>)>>>>,
            <<>>, <<>>))

(* ---------------- transformers/__init__.py: registry ---------------- *)

\* mutation: one dict for all roles, keyed by the plugin name
register_transformer_ByNameOnly(reg, plugin_type, plugin_name, transformer) ==
  {e \in reg : e.plugin_name # plugin_name}
    \cup {[plugin_type |-> plugin_type, plugin_name |-> plugin_name,
           transformer |-> transformer]}

\* the registry is a set of [plugin_type, plugin_name, transformer] entries,
\* at most one per (plugin_type, plugin_name)
register_transformer(reg, plugin_type, plugin_name, transformer) ==
  {e \in reg : ~(e.plugin_type = plugin_type /\ e.plugin_name = plugin_name)}
    \cup {[plugin_type |-> plugin_type, plugin_name |-> plugin_name,
           transformer |-> transformer]}

\* _register_all_transformers(), applied to the empty registry at import
PLUGIN_REGISTRY ==
  LET r1 == register_transformer({}, "input", <<"file">>, "FileInputTransformer")
      r2 == register_transformer(r1, "input", <<"beats">>, "BeatsInputTransformer")
      r3 == register_transformer(r2, "filter", <<"grok">>, "GrokFilterTransformer")
      r4 == register_transformer(r3, "filter", <<"mutate">>, "MutateFilterTransformer")
      r5 == register_transformer(r4, "filter", <<"date">>, "DateFilterTransformer")
      r6 == register_transformer(r5, "output", <<"elasticsearch">>,
                                 "ElasticsearchOutputTransformer")
  IN register_transformer(r6, "output", <<"file">>, "FileOutputTransformer")

\* the registered transformer, or "None"
get_transformer(plugin_type, plugin_name) ==
  LET hits == {e \in registry :
                 e.plugin_type = plugin_type /\ e.plugin_name = plugin_name}
  IN IF hits = {} THEN "None" ELSE (CHOOSE e \in hits : TRUE).transformer

\* transformer.transform(plugin), dispatched on the transformer's class
transform(transformer, plugin) ==
  CASE transformer = "FileInputTransformer" -> FileInputTransformer(plugin)
    [] transformer = "BeatsInputTransformer" -> BeatsInputTransformer(plugin)
    [] transformer = "GrokFilterTransformer" -> GrokFilterTransformer(plugin)
    [] transformer = "MutateFilterTransformer" -> MutateFilterTransformer(plugin)
    [] transformer = "DateFilterTransformer" -> DateFilterTransformer(plugin)
    [] transformer = "ElasticsearchOutputTransformer" ->
         ElasticsearchOutputTransformer(plugin)
    [] OTHER -> FileOutputTransformer(plugin)

(* ---------------- transformers/__init__.py: guidance ---------------- *)

\* [guidance |-> lines, alternatives |-> lines]; a guidance text is kept as
\* the list of its lines (guidance.split("\n"))
get_migration_guidance(plugin_name) ==
  CASE plugin_name = <<"kafka">> ->
         [guidance |->
            <<<<"The Logstash kafka input can be migrated to Vector's kafka source.">>,
              <<"Update the configuration below with the correct kafka settings.">>>>,
          alternatives |->
            <<<<"kafka source: https://vector.dev/docs/reference/configuration/sources/kafka/">>>>]
    [] plugin_name = <<"ruby">> ->
         [guidance |->
            <<<<"The Logstash ruby filter executes custom Ruby code for event processing.">>,
              <<"In Vector, use the 'remap' transform with VRL (Vector Remap Language) to achieve similar functionality.">>,
              <<"VRL provides built-in functions for string manipulation and field transformation.">>>>,
          alternatives |->
            <<<<"remap transform with VRL: https://vector.dev/docs/reference/vrl/">>>>]
    [] plugin_name = <<"jdbc">> ->
         [guidance |->
            <<<<"The Logstash JDBC input/filter is not directly supported in Vector.">>,
              <<"Consider using a separate database connector or ETL tool to feed data into Vector via HTTP or file sources.">>>>,
          alternatives |->
            <<<<"http source: https://vector.dev/docs/reference/configuration/sources/http/">>,
              <<"file source: https://vector.dev/docs/reference/configuration/sources/file/">>>>]
    [] OTHER ->
         [guidance |->
            <<<<"The Logstash ">> \o JoinName(plugin_name)
                \o <<" plugin is not currently supported for automatic migration.">>,
              <<"Please refer to Vector documentation for equivalent components.">>>>,
          alternatives |-> <<<<"Vector documentation: https://vector.dev/docs/">>>>]

\* _format_plugin_config(plugin).split("\n"): one line per setting; the
\* empty text splits into one empty line
_format_plugin_config(plugin) ==
  LET config == plugin.config
      line(kv) ==
        IF kv[2].t = "str"
        THEN <<kv[1], " => \"">> \o kv[2].v[1] \o <<"\"">>
        ELSE <<kv[1], " => ">> \o PyStr(kv[2])
  IN IF config = <<>> THEN <<<<>>>>
     ELSE [i \in 1..Len(config) |-> line(config[i])]

\* str(plugin.config), the repr of the settings dict, as one line
StrConfig(config) ==
  <<"{">>
    \o Flatten([i \in 1..Len(config) |->
         <<"'", config[i][1], "': ">> \o PyRepr(config[i][2])
           \o (IF i < Len(config) THEN <<", ">> ELSE <<>>)])
    \o <<"}">>

(* ---------------- models/migration_report.py ---------------- *)

\* line_number 0 stands for None
MigrationError(error_type, message, line_number, details) ==
  [error_type |-> error_type, message |-> message,
   line_number |-> line_number, details |-> details]

UnsupportedPlugin(plugin, original_config, guidance, alternatives) ==
  [plugin_name |-> plugin.plugin_name, plugin_type |-> plugin.plugin_type,
   line_number |-> plugin.line_number, original_config |-> original_config,
   manual_migration_guidance |-> guidance,
   vector_alternatives |-> alternatives]

PluginMigration(logstash_plugin, vector_components, notes) ==
  [logstash_plugin |-> logstash_plugin,
   vector_components |-> vector_components, notes |-> notes]

MigrationReport(l) ==
  [supported_plugins |-> l.supported_plugins,
   unsupported_plugins |-> l.unsupported_plugins,
   errors |-> l.errors, warnings |-> l.warnings]

(* ---------------- the locals of one orchestrator call ---------------- *)

\* migration.py 37-40, 67-73; transformers/__init__.py 96-105
InitLocals ==
  [sources |-> <<>>, transforms |-> <<>>, sinks |-> <<>>,
   source_ids |-> <<>>, transform_ids |-> <<>>,
   supported_plugins |-> <<>>, unsupported_plugins |-> <<>>,
   errors |-> <<>>, warnings |-> <<>>]

(* ---------------- migration.py: migrate_config ---------------- *)

MigrateUnsupported(plugin, tail, alternatives) ==
  UnsupportedPlugin(plugin, <<StrConfig(plugin.config)>>,
    <<<<"The '">> \o JoinName(plugin.plugin_name) \o <<"' ", plugin.plugin_type,
        " plugin is not currently supported. ", tail>>>>,
    alternatives)

\* mutation: the error does not carry the plugin's line
MigrateFailure_NoLine(plugin) ==
  MigrationError("transformation_error",
    <<"Failed to transform ">> \o JoinName(plugin.plugin_name)
      \o <<" ", plugin.plugin_type>>,
    0, "str(e)")

MigrateFailure(plugin) ==
  MigrationError("transformation_error",
    <<"Failed to transform ">> \o JoinName(plugin.plugin_name)
      \o <<" ", plugin.plugin_type>>,
    plugin.line_number, "str(e)")

MigrateSupported(plugin, component_id, component, what) ==
  PluginMigration(JoinName(plugin.plugin_name) \o <<" (", plugin.plugin_type, ")">>,
                  <<component_id>>,
                  <<"Migrated to Vector ">> \o JoinName(component.component_kind)
                    \o <<" ", what>>)

\* mutation: the fallback to the sources is lost
MigrateWiring_NoFallback(l) ==
  IF l.transform_ids # <<>>
  THEN <<l.transform_ids[Len(l.transform_ids)]>>
  ELSE l.transform_ids

\* mutation: the cumulative wiring of transform_config
MigrateWiring_Cumulative(l) == l.source_ids \o l.transform_ids

\* the inputs given to a filter's or an output's component (138-142, 186-190)
MigrateWiring(l) ==
  IF l.transform_ids # <<>>
  THEN <<l.transform_ids[Len(l.transform_ids)]>>
  ELSE l.source_ids

\* one iteration of the loop over logstash_config.inputs (76-115)
MigrateInputStep(l, input_plugin, i) ==
  LET transformer == get_transformer(input_plugin.plugin_type, input_plugin.plugin_name)
      r == transform(transformer, input_plugin)
      component_id == input_plugin.plugin_name \o <<"input", IdxStr(i)>>
  IN IF transformer = "None"
     THEN [l EXCEPT !.unsupported_plugins = Append(@,
             MigrateUnsupported(input_plugin,
               "Please refer to Vector documentation for equivalent source types.",
               <<<<"file">>, <<"socket">>, <<"http">>>>))]
     ELSE IF r.ok
     THEN [l EXCEPT
             !.sources = DictSet(@, component_id, r.comp),
             !.source_ids = Append(@, component_id),
             !.supported_plugins = Append(@,
                MigrateSupported(input_plugin, component_id, r.comp, "source"))]
     ELSE [l EXCEPT !.errors = Append(@, MigrateFailure(input_plugin))]

\* mutation: an unsupported filter is remembered for wiring although it has
\* no component
MigrateFilterStep_TracksUnsupported(l, filter_plugin, i) ==
  LET transformer == get_transformer(filter_plugin.plugin_type, filter_plugin.plugin_name)
      r == transform(transformer, filter_plugin)
      component_id == filter_plugin.plugin_name \o <<"filter", IdxStr(i)>>
      component == [r.comp EXCEPT !.inputs = MigrateWiring(l)]
  IN IF transformer = "None"
     THEN [l EXCEPT
             !.transform_ids = Append(@, component_id),
             !.unsupported_plugins = Append(@,
               MigrateUnsupported(filter_plugin,
                 "Consider using Vector's remap transform with VRL.",
                 <<<<"remap">>, <<"filter">>>>))]
     ELSE IF r.ok
     THEN [l EXCEPT
             !.transforms = DictSet(@, component_id, component),
             !.transform_ids = Append(@, component_id),
             !.supported_plugins = Append(@,
                MigrateSupported(filter_plugin, component_id, component, "transform"))]
     ELSE [l EXCEPT !.errors = Append(@, MigrateFailure(filter_plugin))]

\* one iteration of the loop over logstash_config.filters (118-163)
MigrateFilterStep(l, filter_plugin, i) ==
  LET transformer == get_transformer(filter_plugin.plugin_type, filter_plugin.plugin_name)
      r == transform(transformer, filter_plugin)
      component_id == filter_plugin.plugin_name \o <<"filter", IdxStr(i)>>
      component == [r.comp EXCEPT !.inputs = MigrateWiring(l)]
  IN IF transformer = "None"
     THEN [l EXCEPT !.unsupported_plugins = Append(@,
             MigrateUnsupported(filter_plugin,
               "Consider using Vector's remap transform with VRL.",
               <<<<"remap">>, <<"filter">>>>))]
     ELSE IF r.ok
     THEN [l EXCEPT
             !.transforms = DictSet(@, component_id, component),
             !.transform_ids = Append(@, component_id),
             !.supported_plugins = Append(@,
                MigrateSupported(filter_plugin, component_id, component, "transform"))]
     ELSE [l EXCEPT !.errors = Append(@, MigrateFailure(filter_plugin))]

\* mutation: an output whose transform raises leaves no record at all
MigrateOutputStep_SwallowsFailure(l, output_plugin, i) ==
  LET transformer == get_transformer(output_plugin.plugin_type, output_plugin.plugin_name)
      r == transform(transformer, output_plugin)
      component_id == output_plugin.plugin_name \o <<"output", IdxStr(i)>>
      component == [r.comp EXCEPT !.inputs = MigrateWiring(l)]
  IN IF transformer = "None"
     THEN [l EXCEPT !.unsupported_plugins = Append(@,
             MigrateUnsupported(output_plugin,
               "Please refer to Vector documentation for equivalent sink types.",
               <<<<"elasticsearch">>, <<"file">>, <<"console">>, <<"http">>>>))]
     ELSE IF r.ok
     THEN [l EXCEPT
             !.sinks = DictSet(@, component_id, component),
             !.supported_plugins = Append(@,
                MigrateSupported(output_plugin, component_id, component, "sink"))]
     ELSE l

\* one iteration of the loop over logstash_config.outputs (166-210)
MigrateOutputStep(l, output_plugin, i) ==
  LET transformer == get_transformer(output_plugin.plugin_type, output_plugin.plugin_name)
      r == transform(transformer, output_plugin)
      component_id == output_plugin.plugin_name \o <<"output", IdxStr(i)>>
      component == [r.comp EXCEPT !.inputs = MigrateWiring(l)]
  IN IF transformer = "None"
     THEN [l EXCEPT !.unsupported_plugins = Append(@,
             MigrateUnsupported(output_plugin,
               "Please refer to Vector documentation for equivalent sink types.",
               <<<<"elasticsearch">>, <<"file">>, <<"console">>, <<"http">>>>))]
     ELSE IF r.ok
     THEN [l EXCEPT
             !.sinks = DictSet(@, component_id, component),
             !.supported_plugins = Append(@,
                MigrateSupported(output_plugin, component_id, component, "sink"))]
     ELSE [l EXCEPT !.errors = Append(@, MigrateFailure(output_plugin))]

\* the document handed back: the three dicts of a VectorConfiguration
VectorConfiguration(l) ==
  [sources |-> l.sources, transforms |-> l.transforms, sinks |-> l.sinks]

\* mutation: a missing sink is not reported
MigrateAssembleErrors_NoSinkError(l) ==
  IF l.sources = <<>>
  THEN Append(l.errors, MigrationError("transformation_error",
         <<"No source components generated - cannot create valid Vector config">>,
         0, "None"))
  ELSE l.errors

\* lines 212-247: the errors list after the attempt to build the document
MigrateAssembleErrors(l) ==
  IF l.sources # <<>> /\ l.sinks # <<>>
  THEN IF VectorConfigurationOk(l.sources, l.transforms, l.sinks)
       THEN l.errors
       ELSE Append(l.errors, MigrationError("validation_error",
              <<"Failed to create Vector configuration">>, 0, "str(e)"))
  ELSE IF l.sources = <<>>
  THEN Append(l.errors, MigrationError("transformation_error",
         <<"No source components generated - cannot create valid Vector config">>,
         0, "None"))
  ELSE Append(l.errors, MigrationError("transformation_error",
         <<"No sink components generated - cannot create valid Vector config">>,
         0, "None"))

\* lines 212-260: [status, config (empty for None), report]
MigrateReturn(l) ==
  LET final == [l EXCEPT !.errors = MigrateAssembleErrors(l)]
      built == /\ l.sources # <<>> /\ l.sinks # <<>>
               /\ VectorConfigurationOk(l.sources, l.transforms, l.sinks)
  IN [status |-> "returned",
      config |-> IF built THEN <<VectorConfiguration(l)>> ELSE <<>>,
      report |-> <<MigrationReport(final)>>]

(* ---------------- transformers/__init__.py: transform_config ---------------- *)

\* mutation: the index suffix is never appended
TransformComponentId_NoIndex(plugin_name, role, i) == plugin_name \o <<role>>

\* f"{plugin.plugin_name}_{role}", with f"_{idx}" appended when idx > 0
TransformComponentId(plugin_name, role, i) ==
  plugin_name \o <<role>> \o (IF i > 0 THEN <<IdxStr(i)>> ELSE <<>>)

\* f"{plugin.plugin_name}_{role}_placeholder", with f"_{idx}" when idx > 0
TransformPlaceholderId(plugin_name, role, i) ==
  plugin_name \o <<role, "placeholder">> \o (IF i > 0 THEN <<IdxStr(i)>> ELSE <<>>)

\* mutation: the original settings are left out of the comments
PlaceholderComments_NoSettings(plugin, role, g) ==
  <<<<"TODO: Manual migration required for unsupported plugin '">>
       \o JoinName(plugin.plugin_name) \o <<"' (", role, ")">>,
    <<"Original Logstash configuration:">>,
    <<"  ">> \o JoinName(plugin.plugin_name) \o <<" {">>,
    <<"  }">>, <<>>, <<"Vector alternatives to consider:">>>>
  \o [i \in 1..Len(g.alternatives) |-> <<"  - ">> \o g.alternatives[i]]
  \o <<<<>>, <<"Manual migration guidance:">>>>
  \o [i \in 1..Len(g.guidance) |-> <<"  ">> \o g.guidance[i]]

\* the comments list of a placeholder (152-164, 215-227, 277-289)
PlaceholderComments(plugin, role, g) ==
  LET cfg == _format_plugin_config(plugin) IN
  <<<<"TODO: Manual migration required for unsupported plugin '">>
       \o JoinName(plugin.plugin_name) \o <<"' (", role, ")">>,
    <<"Original Logstash configuration:">>,
    <<"  ">> \o JoinName(plugin.plugin_name) \o <<" {">>>>
  \o [i \in 1..Len(cfg) |-> <<"    ">> \o cfg[i]]
  \o <<<<"  }">>, <<>>, <<"Vector alternatives to consider:">>>>
  \o [i \in 1..Len(g.alternatives) |-> <<"  - ">> \o g.alternatives[i]]
  \o <<<<>>, <<"Manual migration guidance:">>>>
  \o [i \in 1..Len(g.guidance) |-> <<"  ">> \o g.guidance[i]]

TransformUnsupported(plugin, role, g) ==
  UnsupportedPlugin([plugin EXCEPT !.plugin_type = role],
                    _format_plugin_config(plugin), g.guidance, g.alternatives)

TransformSupported(plugin, component_id) ==
  PluginMigration(JoinName(plugin.plugin_name), <<component_id>>, <<>>)

\* the inputs of a filter's component: source_ids + transform_ids (180, 214)
TransformFilterWiring(l) == l.source_ids \o l.transform_ids

\* the inputs of an output's component (243, 276)
TransformOutputWiring(l) ==
  IF l.transform_ids # <<>> THEN l.transform_ids ELSE l.source_ids

\* a step's result: the new locals, or the exception that leaves the call
Stepped(l) == [ok |-> TRUE, l |-> l]

Escaped(l) == [ok |-> FALSE, l |-> l]

\* one iteration of the loop over logstash_config.inputs (108-166)
TransformInputStep(l, plugin, i) ==
  LET component_id == TransformComponentId(plugin.plugin_name, "input", i)
      transformer == get_transformer("input", plugin.plugin_name)
      r == transform(transformer, plugin)
      g == get_migration_guidance(plugin.plugin_name)
      placeholder_id == TransformPlaceholderId(plugin.plugin_name, "input", i)
  IN IF transformer # "None"
     THEN IF r.ok
          THEN Stepped([l EXCEPT
                 !.sources = DictSet(@, component_id, r.comp),
                 !.source_ids = Append(@, component_id),
                 !.supported_plugins = Append(@,
                    TransformSupported(plugin, component_id))])
          ELSE Escaped(l)
     ELSE Stepped([l EXCEPT
            !.unsupported_plugins = Append(@, TransformUnsupported(plugin, "input", g)),
            !.sources = DictSet(@, placeholder_id,
               VectorComponent("source", plugin.plugin_name, <<>>, <<>>,
                               PlaceholderComments(plugin, "input", g))),
            !.source_ids = Append(@, placeholder_id)])

\* mutation: the identifier is remembered before the inputs are taken, so a
\* filter's component names itself
TransformFilterStep_WiresSelf(l, plugin, i) ==
  LET component_id == TransformComponentId(plugin.plugin_name, "filter", i)
      transformer == get_transformer("filter", plugin.plugin_name)
      r == transform(transformer, plugin)
      g == get_migration_guidance(plugin.plugin_name)
      placeholder_id == TransformPlaceholderId(plugin.plugin_name, "filter", i)
  IN IF transformer # "None"
     THEN IF r.ok
          THEN Stepped([l EXCEPT
                 !.transforms = DictSet(@, component_id,
                    [r.comp EXCEPT !.inputs = TransformFilterWiring(l) \o <<component_id>>]),
                 !.transform_ids = Append(@, component_id),
                 !.supported_plugins = Append(@,
                    TransformSupported(plugin, component_id))])
          ELSE Escaped(l)
     ELSE Stepped([l EXCEPT
            !.unsupported_plugins = Append(@, TransformUnsupported(plugin, "filter", g)),
            !.transforms = DictSet(@, placeholder_id,
               VectorComponent("transform", <<"remap">>,
                 <<<<"source", Str(<<"# FIXME: Implement transformation logic">>)>>>>,
                 TransformFilterWiring(l) \o <<placeholder_id>>,
                 PlaceholderComments(plugin, "filter", g))),
            !.transform_ids = Append(@, placeholder_id)])

\* one iteration of the loop over logstash_config.filters (169-229)
TransformFilterStep(l, plugin, i) ==
  LET component_id == TransformComponentId(plugin.plugin_name, "filter", i)
      transformer == get_transformer("filter", plugin.plugin_name)
      r == transform(transformer, plugin)
      g == get_migration_guidance(plugin.plugin_name)
      placeholder_id == TransformPlaceholderId(plugin.plugin_name, "filter", i)
  IN IF transformer # "None"
     THEN IF r.ok
          THEN Stepped([l EXCEPT
                 !.transforms = DictSet(@, component_id,
                    [r.comp EXCEPT !.inputs = TransformFilterWiring(l)]),
                 !.transform_ids = Append(@, component_id),
                 !.supported_plugins = Append(@,
                    TransformSupported(plugin, component_id))])
          ELSE Escaped(l)
     ELSE Stepped([l EXCEPT
            !.unsupported_plugins = Append(@, TransformUnsupported(plugin, "filter", g)),
            !.transforms = DictSet(@, placeholder_id,
               VectorComponent("transform", <<"remap">>,
                 <<<<"source", Str(<<"# FIXME: Implement transformation logic">>)>>>>,
                 TransformFilterWiring(l),
                 PlaceholderComments(plugin, "filter", g))),
            !.transform_ids = Append(@, placeholder_id)])

\* one iteration of the loop over logstash_config.outputs (232-290)
TransformOutputStep(l, plugin, i) ==
  LET component_id == TransformComponentId(plugin.plugin_name, "output", i)
      transformer == get_transformer("output", plugin.plugin_name)
      r == transform(transformer, plugin)
      g == get_migration_guidance(plugin.plugin_name)
      placeholder_id == TransformPlaceholderId(plugin.plugin_name, "output", i)
  IN IF transformer # "None"
     THEN IF r.ok
          THEN Stepped([l EXCEPT
                 !.sinks = DictSet(@, component_id,
                    [r.comp EXCEPT !.inputs = TransformOutputWiring(l)]),
                 !.supported_plugins = Append(@,
                    TransformSupported(plugin, component_id))])
          ELSE Escaped(l)
     ELSE Stepped([l EXCEPT
            !.unsupported_plugins = Append(@, TransformUnsupported(plugin, "output", g)),
            !.sinks = DictSet(@, placeholder_id,
               VectorComponent("sink", plugin.plugin_name, <<>>,
                               TransformOutputWiring(l),
                               PlaceholderComments(plugin, "output", g)))])

\* lines 292-311: VectorConfiguration(...) raises when its validators fail
TransformReturn(l) ==
  IF VectorConfigurationOk(l.sources, l.transforms, l.sinks)
  THEN [status |-> "returned", config |-> <<VectorConfiguration(l)>>,
        report |-> <<MigrationReport(l)>>]
  ELSE [status |-> "raised", config |-> <<>>, report |-> <<>>]

(* ---------------- migrate_config as a function of the lists ---------------- *)

\* enumerate(seq): <<index, element>> pairs, indices from 0
Enumerate(s) == [i \in 1..Len(s) |-> <<i - 1, s[i]>>]

MigrateStep(role, l, plugin, i) ==
  CASE role = "inputs" -> MigrateInputStep(l, plugin, i)
    [] role = "filters" -> MigrateFilterStep(l, plugin, i)
    [] OTHER -> MigrateOutputStep(l, plugin, i)

\* one for-loop of migrate_config over the enumerated list es
RECURSIVE MigrateFold(_, _, _)
MigrateFold(role, l, es) ==
  IF es = <<>> THEN l
  ELSE MigrateFold(role, MigrateStep(role, l, Head(es)[2], Head(es)[1]), Tail(es))

\* the locals after the three loops (lines 67-210)
MigrateLoops(ei, ef, eo) ==
  MigrateFold("outputs",
    MigrateFold("filters", MigrateFold("inputs", InitLocals, ei), ef), eo)

TransformStep(role, l, plugin, i) ==
  CASE role = "inputs" -> TransformInputStep(l, plugin, i)
    [] role = "filters" -> TransformFilterStep(l, plugin, i)
    [] OTHER -> TransformOutputStep(l, plugin, i)

(* ---------------- parser/logstash_parser_regex.py ---------------- *)

\* mutation: the check for output plugins is missing
parse_file_regex_NoOutputCheck(d) ==
  IF d.inputs = <<>>
  THEN [ok |-> FALSE, message |-> <<"No input plugins found in ", "file_path">>]
  ELSE [ok |-> TRUE, message |-> <<>>]

\* parse_file_regex, lines 179-191: after the blocks have been scanned into
\* the three plugin lists d, either the document or a ValueError
parse_file_regex(d) ==
  IF d.inputs = <<>>
  THEN [ok |-> FALSE, message |-> <<"No input plugins found in ", "file_path">>]
  ELSE IF d.outputs = <<>>
  THEN [ok |-> FALSE, message |-> <<"No output plugins found in ", "file_path">>]
  ELSE [ok |-> TRUE, message |-> <<>>]

(* ---------------- parser: the scanners over the raw text ---------------- *)

\* A raw text is the sequence of its characters; Python's 0-based offsets
\* are kept, so content[i] is At(content, i).
At(content, i) == content[i + 1]

\* content[a:b] (b beyond the end is clamped, b <= a gives the empty text)
Slice(content, a, b) ==
  LET e == IF b > Len(content) THEN Len(content) ELSE b
  IN IF e <= a THEN <<>> ELSE SubSeq(content, a + 1, e)

Uppers ==
  <<"A", "B", "C", "D", "E", "F", "G", "H", "I", "J", "K", "L", "M",
    "N", "O", "P", "Q", "R", "S", "T", "U", "V", "W", "X", "Y", "Z">>

Lowers ==
  <<"a", "b", "c", "d", "e", "f", "g", "h", "i", "j", "k", "l", "m",
    "n", "o", "p", "q", "r", "s", "t", "u", "v", "w", "x", "y", "z">>

Digits == {"0", "1", "2", "3", "4", "5", "6", "7", "8", "9"}

\* c.lower()
LowerChar(c) ==
  IF c \in Range(Uppers)
  THEN Lowers[CHOOSE k \in 1..Len(Uppers) : Uppers[k] = c] ELSE c

\* text.lower()
Lower(text) == [k \in 1..Len(text) |-> LowerChar(text[k])]

\* c.isalpha(), c.isalnum()
IsAlpha(c) == c \in Range(Uppers) \cup Range(Lowers)

IsAlnum(c) == IsAlpha(c) \/ c \in Digits

\* c in ' \t\n'
IsSpace(c) == c \in {" ", "\t", "\n"}

\* text.count('\n')
RECURSIVE CountNewlines(_)
CountNewlines(text) ==
  IF text = <<>> THEN 0
  ELSE (IF Head(text) = "\n" THEN 1 ELSE 0) + CountNewlines(Tail(text))

\* while i < len(content) and content[i] in ' \t\n': i += 1
RECURSIVE SkipSpace(_, _)
SkipSpace(content, i) ==
  IF i < Len(content) /\ IsSpace(At(content, i))
  THEN SkipSpace(content, i + 1) ELSE i

\* while i < len(content) and brace_depth > 0: ... i += 1   (56-61, 110-115)
RECURSIVE CountBraces(_, _, _)
CountBraces(content, i, brace_depth) ==
  IF i < Len(content) /\ brace_depth > 0
  THEN CountBraces(content, i + 1,
         IF At(content, i) = "{" THEN brace_depth + 1
         ELSE IF At(content, i) = "}" THEN brace_depth - 1
         ELSE brace_depth)
  ELSE i

\* while i < len and (isalnum or '_'): i += 1   (92-93)
RECURSIVE SkipIdentifier(_, _)
SkipIdentifier(content, i) ==
  IF i < Len(content) /\ (IsAlnum(At(content, i)) \/ At(content, i) = "_")
  THEN SkipIdentifier(content, i + 1) ELSE i

block_keywords ==
  <<<<"i", "n", "p", "u", "t">>, <<"f", "i", "l", "t", "e", "r">>,
    <<"o", "u", "t", "p", "u", "t">>>>

\* lines 30-37: the first keyword that matches at i, or the empty text
found_keyword(content, i) ==
  LET hit(keyword) ==
        /\ Lower(Slice(content, i, i + Len(keyword))) = keyword
        /\ ~(/\ i + Len(keyword) < Len(content)
             /\ IsAlnum(At(content, i + Len(keyword))))
      hits == {k \in 1..Len(block_keywords) : hit(block_keywords[k])}
  IN IF hits = {} THEN <<>>
     ELSE block_keywords[CHOOSE k \in hits : \A m \in hits : k <= m]

\* _extract_blocks, the while loop from offset i on (21-67)
RECURSIVE ExtractBlocksFrom(_, _)
ExtractBlocksFrom(content, i0) ==
  LET i == SkipSpace(content, i0)
      keyword == found_keyword(content, i)
      brace == SkipSpace(content, i + Len(keyword))
      content_start == brace + 1
      end == CountBraces(content, content_start, 1)
  IN IF i >= Len(content) THEN <<>>
     ELSE IF keyword = <<>> THEN ExtractBlocksFrom(content, i + 1)
     ELSE IF brace >= Len(content) \/ At(content, brace) # "{"
     THEN ExtractBlocksFrom(content, brace)
     ELSE <<[block_type |-> keyword,
             block_content |-> Slice(content, content_start, end - 1),
             start_position |-> i]>>
          \o ExtractBlocksFrom(content, end)

_extract_blocks(content) == ExtractBlocksFrom(content, 0)

\* line 122: full_content[:block_start + name_start].count('\n') + 1
PluginLine(full_content, block_start, name_start) ==
  CountNewlines(Slice(full_content, 0, block_start + name_start)) + 1

\* _extract_plugins, the while loop from offset i on (81-126); the body of
\* a plugin is kept as its text (the argument of _parse_config)
RECURSIVE ExtractPluginsFrom(_, _, _, _)
ExtractPluginsFrom(block_content, block_start, full_content, i0) ==
  LET i == SkipSpace(block_content, i0)
      name_start == i
      name_end == SkipIdentifier(block_content, i)
      brace == SkipSpace(block_content, name_end)
      config_start == brace + 1
      end == CountBraces(block_content, config_start, 1)
  IN IF i >= Len(block_content) THEN <<>>
     ELSE IF ~(IsAlpha(At(block_content, i)) \/ At(block_content, i) = "_")
     THEN ExtractPluginsFrom(block_content, block_start, full_content, i + 1)
     ELSE IF brace >= Len(block_content) \/ At(block_content, brace) # "{"
     THEN ExtractPluginsFrom(block_content, block_start, full_content, brace)
     ELSE <<[plugin_name |-> Slice(block_content, name_start, name_end),
             config |-> Slice(block_content, config_start, end - 1),
             line_number |-> PluginLine(full_content, block_start, name_start)]>>
          \o ExtractPluginsFrom(block_content, block_start, full_content, end)

_extract_plugins(block_content, block_start, full_content) ==
  ExtractPluginsFrom(block_content, block_start, full_content, 0)

(* ---------------- the documents explored ---------------- *)

Decl(name, config) == [name |-> name, config |-> config]

InputPool ==
  { Decl(<<"file">>, <<<<"path", Str(<<"/var/log/app.log">>)>>>>),
    Decl(<<"beats">>, <<<<"port", Int("5044")>>>>),
    Decl(<<"kafka">>, <<<<"bootstrap_servers", Str(<<"localhost:9092">>)>>,
                        <<"topics", List(<<<<"logs">>>>)>>>>),
    Decl(<<"file", "input">>, <<>>) }

FilterPool ==
  { Decl(<<"grok">>, <<<<"match", Dict(<<<<"message">>,
                                         <<"%{", "COMBINEDAPACHELOG}">>>>)>>>>),
    Decl(<<"mutate">>, <<<<"remove_field", List(<<<<"temp_field">>>>)>>>>),
    Decl(<<"mutate">>, <<<<"remove_field", Int("5")>>>>),
    Decl(<<"ruby">>, <<<<"code", Str(<<"event.cancel">>)>>>>) }

OutputPool ==
  { Decl(<<"file">>, <<<<"path", Str(<<"/var/log/out.log">>)>>>>),
    Decl(<<"elasticsearch">>,
         <<<<"hosts", List(<<<<"localhost:9200">>>>)>>,
           <<"index", Str(<<"logstash", "-", "%{", "+YYYY.MM.dd}">>)>>>>),
    Decl(<<"elasticsearch">>, <<<<"hosts", Int("9200")>>>>),
    Decl(<<"stdout">>, <<>>) }

\* the scanned lists for a text with one plugin per line: "input {" on line
\* 1, its plugins below it, then the filter block, then the output block;
\* every plugin name is indented by eight columns, the layout for which
\* line 122 of the parser counts these line numbers
Document(ins, fs, outs) ==
  [inputs |-> [i \in 1..Len(ins) |->
      LogstashPlugin("input", ins[i].name, ins[i].config, 1 + i)],
   filters |-> [i \in 1..Len(fs) |->
      LogstashPlugin("filter", fs[i].name, fs[i].config, Len(ins) + 3 + i)],
   outputs |-> [i \in 1..Len(outs) |->
      LogstashPlugin("output", outs[i].name, outs[i].config,
                     Len(ins) + Len(fs) + 5 + i)]]

(* ---------------- control flow of the three loops ---------------- *)

RoleList(d, role) ==
  CASE role = "inputs" -> d.inputs
    [] role = "filters" -> d.filters
    [] OTHER -> d.outputs

\* the loop that runs after the loop over role is exhausted
RECURSIVE LoopFrom(_, _)
LoopFrom(d, role) ==
  IF role = "assemble" THEN "assemble"
  ELSE IF RoleList(d, role) # <<>> THEN role
  ELSE LoopFrom(d, CASE role = "inputs" -> "filters"
                     [] role = "filters" -> "outputs"
                     [] OTHER -> "assemble")

AfterLoop(role) ==
  CASE role = "inputs" -> "filters"
    [] role = "filters" -> "outputs"
    [] OTHER -> "assemble"

\* the position after iteration i of the loop over role
NextPc(d, role, i) ==
  IF i + 1 < Len(RoleList(d, role)) THEN role ELSE LoopFrom(d, AfterLoop(role))

NextIdx(d, role, i) ==
  IF i + 1 < Len(RoleList(d, role)) THEN i + 1 ELSE 0

Pending == [status |-> "pending", config |-> <<>>, report |-> <<>>]

Threw == [status |-> "raised", config |-> <<>>, report |-> <<>>]

(* ---------------- the state machine ---------------- *)

\* the parser is not running
ParseIdle ==
  /\ raw_content = <<>>
  /\ ppc = "idle"
  /\ blocks = <<>>
  /\ bk = 0
  /\ parsed = [inputs |-> <<>>, filters |-> <<>>, outputs |-> <<>>]

\* no directory run is in progress
BatchIdle ==
  /\ command = "none"
  /\ options = [dry_run |-> FALSE, validate |-> FALSE, overwrite |-> FALSE,
                output_dir |-> FALSE]
  /\ conf_files = <<>>
  /\ fsys = <<>>
  /\ bpc = "idle"
  /\ bi = 0
  /\ result = [is_dry_run |-> FALSE, previews |-> <<>>, reports |-> <<>>,
               total_files |-> 0, successful |-> 0, failed |-> 0]
  /\ cur = Pending

Init ==
  /\ fn \in {"migrate_config", "transform_config"}
  /\ \E ni \in 0..MaxPlugins : \E nf \in 0..(MaxPlugins - ni) :
       \E no \in 0..(MaxPlugins - ni - nf) :
         \E ins \in [1..ni -> InputPool] : \E fs \in [1..nf -> FilterPool] :
           \E outs \in [1..no -> OutputPool] :
             doc = Document(ins, fs, outs)
  /\ pc = "parse"
  /\ idx = 0
  /\ locals = InitLocals
  /\ ret = Pending
  /\ registry = PLUGIN_REGISTRY
  /\ BatchIdle
  /\ ParseIdle
  /\ latest = <<>>
  /\ calls = <<>>
  /\ unit = <<>>

\* parse_file(path) returned a document (migration.py 44; the tests call
\* parse_file and hand the document to transform_config)
ParseOk ==
  /\ pc = "parse"
  /\ parse_file_regex(doc).ok
  /\ pc' = LoopFrom(doc, "inputs")
  /\ UNCHANGED <<fn, doc, idx, locals, ret>>
  /\ UNCHANGED nonCallVars

\* parse_file raised ValueError: migrate_config returns (None, report)
\* (45-64); a caller of transform_config never reaches it
ParseFail ==
  /\ pc = "parse"
  /\ ~parse_file_regex(doc).ok
  /\ pc' = "done"
  /\ IF fn = "migrate_config"
     THEN LET l == [locals EXCEPT !.errors = Append(@,
                      MigrationError("parse_error", parse_file_regex(doc).message,
                                     0, "None"))]
          IN /\ locals' = l
             /\ ret' = [status |-> "returned", config |-> <<>>,
                        report |-> <<MigrationReport(l)>>]
     ELSE /\ locals' = locals
          /\ ret' = Threw
  /\ UNCHANGED <<fn, doc, idx>>
  /\ UNCHANGED nonCallVars

MigrateLoop(role) ==
  /\ fn = "migrate_config"
  /\ pc = role
  /\ locals' = MigrateStep(role, locals, RoleList(doc, role)[idx + 1], idx)
  /\ pc' = NextPc(doc, role, idx)
  /\ idx' = NextIdx(doc, role, idx)
  /\ UNCHANGED <<fn, doc, ret>>
  /\ UNCHANGED nonCallVars

MigrateInput == MigrateLoop("inputs")

MigrateFilter == MigrateLoop("filters")

MigrateOutput == MigrateLoop("outputs")

MigrateAssemble ==
  /\ fn = "migrate_config"
  /\ pc = "assemble"
  /\ locals' = [locals EXCEPT !.errors = MigrateAssembleErrors(locals)]
  /\ ret' = MigrateReturn(locals)
  /\ pc' = "done"
  /\ UNCHANGED <<fn, doc, idx>>
  /\ UNCHANGED nonCallVars

TransformLoop(role) ==
  /\ fn = "transform_config"
  /\ pc = role
  /\ LET r == TransformStep(role, locals, RoleList(doc, role)[idx + 1], idx) IN
       IF r.ok
       THEN /\ locals' = r.l
            /\ pc' = NextPc(doc, role, idx)
            /\ idx' = NextIdx(doc, role, idx)
            /\ ret' = ret
       ELSE /\ locals' = locals
            /\ pc' = "done"
            /\ idx' = idx
            /\ ret' = Threw
  /\ UNCHANGED <<fn, doc>>
  /\ UNCHANGED nonCallVars

TransformInput == TransformLoop("inputs")

TransformFilter == TransformLoop("filters")

TransformOutput == TransformLoop("outputs")

TransformAssemble ==
  /\ fn = "transform_config"
  /\ pc = "assemble"
  /\ ret' = TransformReturn(locals)
  /\ pc' = "done"
  /\ UNCHANGED <<fn, doc, idx, locals>>
  /\ UNCHANGED nonCallVars

Next ==
  \/ ParseOk
  \/ ParseFail
  \/ MigrateInput
  \/ MigrateFilter
  \/ MigrateOutput
  \/ MigrateAssemble
  \/ TransformInput
  \/ TransformFilter
  \/ TransformOutput
  \/ TransformAssemble

Spec == Init /\ [][Next]_vars

(* ---------------- MigrationReport.success_rate ---------------- *)

\* mutation: the errors are counted among the plugins
success_rate_CountsErrors(report) ==
  LET total == Len(report.supported_plugins) + Len(report.unsupported_plugins)
                 + Len(report.errors)
  IN IF total > 0 THEN <<Len(report.supported_plugins), total>> ELSE <<0, 1>>

\* the float supported / total as the fraction <<numerator, denominator>>;
\* 0.0 is <<0, 1>>
success_rate(report) ==
  LET total == Len(report.supported_plugins) + Len(report.unsupported_plugins)
  IN IF total > 0 THEN <<Len(report.supported_plugins), total>> ELSE <<0, 1>>

\* rate == n / d
RateIs(rate, n, d) == rate[1] * d = n * rate[2]

\* ", ".join(ids)
RECURSIVE JoinIds(_)
JoinIds(ids) ==
  IF ids = <<>> THEN <<>>
  ELSE Head(ids) \o (IF Len(ids) > 1 THEN <<", ">> ELSE <<>>) \o JoinIds(Tail(ids))

(* ---------------- MigrationReport.to_markdown ---------------- *)

DigitChars == <<"0", "1", "2", "3", "4", "5", "6", "7", "8", "9">>

\* the line that opens and closes a code block (three backquotes); the
\* backquotes around a path are left out of its tokens
Fence == "(fence)"

\* str(n) of a non-negative int, as its digits
RECURSIVE DecStr(_)
DecStr(n) ==
  IF n < 10 THEN <<DigitChars[n + 1]>>
  ELSE DecStr(n \div 10) \o <<DigitChars[(n % 10) + 1]>>

\* f"{rate:.1%}": the rate times 100, rounded to one decimal
PercentStr(rate) ==
  LET tenths == (2000 * rate[1] + rate[2]) \div (2 * rate[2])
  IN DecStr(tenths \div 10) \o <<".">> \o DecStr(tenths % 10) \o <<"%">>

\* mutation: the unsupported count is taken from the errors list
SummaryLines_UnsupportedFromErrors(report) ==
  <<<<"## Summary">>, <<>>,
    <<"- Successfully migrated: ">> \o DecStr(Len(report.supported_plugins))
      \o <<" plugins">>,
    <<"- Unsupported plugins: ">> \o DecStr(Len(report.errors)),
    <<"- Errors: ">> \o DecStr(Len(report.errors)),
    <<"- Warnings: ">> \o DecStr(Len(report.warnings)),
    <<>>>>

\* lines 70-77 (the emoji of each label is left out of its token)
SummaryLines(report) ==
  <<<<"## Summary">>, <<>>,
    <<"- Successfully migrated: ">> \o DecStr(Len(report.supported_plugins))
      \o <<" plugins">>,
    <<"- Unsupported plugins: ">> \o DecStr(Len(report.unsupported_plugins)),
    <<"- Errors: ">> \o DecStr(Len(report.errors)),
    <<"- Warnings: ">> \o DecStr(Len(report.warnings)),
    <<>>>>

\* lines 83-88
SupportedLines(migration) ==
  <<<<"### ">> \o migration.logstash_plugin,
    <<"- **Vector components:** ">> \o JoinIds(migration.vector_components)>>
  \o (IF migration.notes # <<>>
      THEN <<<<"- **Notes:** ">> \o migration.notes>> ELSE <<>>)
  \o <<<<>>>>

\* lines 94-110; original_config and manual_migration_guidance are kept as
\* the lists of their lines
UnsupportedLines(unsupported) ==
  <<<<"### ">> \o JoinName(unsupported.plugin_name)
       \o <<" (line ">> \o DecStr(unsupported.line_number) \o <<")">>,
    <<"- **Type:** ", unsupported.plugin_type>>,
    <<>>,
    <<"**Original Configuration:**">>,
    <<Fence>>>>
  \o unsupported.original_config
  \o <<<<Fence>>, <<>>, <<"**Migration Guidance:**">>>>
  \o unsupported.manual_migration_guidance
  \o <<<<>>>>
  \o (IF unsupported.vector_alternatives # <<>>
      THEN <<<<"**Vector Alternatives:**">>>>
           \o [k \in 1..Len(unsupported.vector_alternatives) |->
                 <<"- ">> \o unsupported.vector_alternatives[k]]
           \o <<<<>>>>
      ELSE <<>>)

\* lines 116-124
ErrorLines(error) ==
  <<<<"### ", error.error_type>>,
    <<"- **File:** ", "file_path">>>>
  \o (IF error.line_number # 0
      THEN <<<<"- **Line:** ">> \o DecStr(error.line_number)>> ELSE <<>>)
  \o <<<<"- **Message:** ">> \o error.message>>
  \o (IF error.details # "None"
      THEN <<<<"- **Details:** ", error.details>>>> ELSE <<>>)
  \o <<<<>>>>

\* to_markdown(self).split("\n"): the lines of the text (59-134)
to_markdown(report) ==
  <<<<"# Migration Report">>, <<>>,
    <<"**Source:** ", "source_file">>,
    <<"**Target:** ", "target_file">>,
    <<"**Generated:** ", "timestamp">>,
    <<"**Success Rate:** ">> \o PercentStr(success_rate(report)),
    <<>>>>
  \o SummaryLines(report)
  \o (IF report.supported_plugins # <<>>
      THEN <<<<"## Successfully Migrated Plugins">>, <<>>>>
           \o Flatten([k \in 1..Len(report.supported_plugins) |->
                         SupportedLines(report.supported_plugins[k])])
      ELSE <<>>)
  \o (IF report.unsupported_plugins # <<>>
      THEN <<<<"## Unsupported Plugins (Manual Migration Required)">>, <<>>>>
           \o Flatten([k \in 1..Len(report.unsupported_plugins) |->
                         UnsupportedLines(report.unsupported_plugins[k])])
      ELSE <<>>)
  \o (IF report.errors # <<>>
      THEN <<<<"## Errors">>, <<>>>>
           \o Flatten([k \in 1..Len(report.errors) |-> ErrorLines(report.errors[k])])
      ELSE <<>>)
  \o (IF report.warnings # <<>>
      THEN <<<<"## Warnings">>, <<>>>>
           \o [k \in 1..Len(report.warnings) |-> <<"- ">> \o report.warnings[k]]
           \o <<<<>>>>
      ELSE <<>>)

(* ---------------- migration.py: migrate_config as one call ---------------- *)

\* migrate_config on a readable file whose text scans into the lists d:
\* the parse (42-64), the three loops (67-210), the assembly (212-260)
migrate_config(d) ==
  IF ~parse_file_regex(d).ok
  THEN [status |-> "returned", config |-> <<>>,
        report |-> <<MigrationReport([InitLocals EXCEPT !.errors =
                       <<MigrationError("parse_error",
                                        parse_file_regex(d).message, 0, "None")>>])>>]
  ELSE MigrateReturn(MigrateLoops(Enumerate(d.inputs), Enumerate(d.filters),
                                  Enumerate(d.outputs)))

(* ---------------- the files of a directory run ---------------- *)

\* largest number of .conf files in the directory
MaxFiles == 2

\* the directory given to the run and one directory below it
ConfDirs == {"top", "sub"}

\* file names without their suffix
ConfNames == {"x", "y"}

\* the order of the names under sorted(key=lambda p: p.name)
NameRank(name) == IF name = "x" THEN 1 ELSE 2

\* what a .conf file holds: a text that translates without error, a text
\* without output block, a text with a filter whose transform raises, a
\* file whose read_text raises OSError (logstash_parser_regex.py 140), or a
\* text that translates without error into a TOML file that `vector
\* validate` rejects
ConfKinds == {"good", "no_output", "bad_filter", "unreadable", "rejected"}

ConfDocument(kind) ==
  LET file_in == Decl(<<"file">>, <<<<"path", Str(<<"/var/log/app.log">>)>>>>)
      file_out == Decl(<<"file">>, <<<<"path", Str(<<"/var/log/out.log">>)>>>>)
      bad == Decl(<<"mutate">>, <<<<"remove_field", Int("5")>>>>)
  IN CASE kind = "no_output" -> Document(<<file_in>>, <<>>, <<>>)
       [] kind = "bad_filter" -> Document(<<file_in>>, <<bad>>, <<file_out>>)
       [] OTHER -> Document(<<file_in>>, <<>>, <<file_out>>)

ConfFile(dir, name, kind) == [dir |-> dir, name |-> name, kind |-> kind]

\* find_conf_files: the *.conf files below the directory, sorted by name;
\* files of the same name come in the order rglob met them
find_conf_files ==
  {fs \in UNION {[1..n -> {ConfFile(d, nm, k) :
                             d \in ConfDirs, nm \in ConfNames, k \in ConfKinds}] :
                 n \in 0..MaxFiles} :
     /\ \A i, j \in 1..Len(fs) :
          i < j => /\ <<fs[i].dir, fs[i].name>> # <<fs[j].dir, fs[j].name>>
                   /\ NameRank(fs[i].name) <= NameRank(fs[j].name)}

TargetPath(dir, name) == [dir |-> dir, name |-> name]

\* api.py 52-55, cli.py 77-80: output_dir / conf_file.with_suffix(".toml").name
\* or conf_file.with_suffix(".toml")
OutputPath(conf_file, output_dir) ==
  IF output_dir THEN TargetPath("out", conf_file.name)
  ELSE TargetPath(conf_file.dir, conf_file.name)

\* cli.py 122: directory / "migration-report.md"
ReportPath == TargetPath("top", "migration-report")

AllTargets ==
  {TargetPath(d, nm) : d \in ConfDirs \cup {"out"}, nm \in ConfNames}
    \cup {ReportPath}

\* the content of a path: nothing, a file that was there before the run,
\* the TOML written for a source file, or the combined report
Absent == <<>>

OldFile == <<"old">>

TomlOf(conf_file) == <<"toml", conf_file.dir, conf_file.name>>

CombinedReport == <<"report">>

(* ---------------- models/migration_report.py: batch records ---------------- *)

\* the MigrationReport migrate_config builds for one file (250-258)
FileReport(conf_file, output_path, report) ==
  [source_file |-> [dir |-> conf_file.dir, name |-> conf_file.name],
   target_file |-> output_path,
   supported_plugins |-> report.supported_plugins,
   unsupported_plugins |-> report.unsupported_plugins,
   errors |-> report.errors, warnings |-> report.warnings]

TransformationPreview(plugin) ==
  [logstash_plugin |-> plugin.logstash_plugin,
   vector_component |-> JoinIds(plugin.vector_components),
   notes |-> plugin.notes]

\* api.py 74-94 (estimated_size, the length of the TOML text, is left out)
MigrationPreview(conf_file, output_path, report) ==
  [source_file |-> [dir |-> conf_file.dir, name |-> conf_file.name],
   target_file |-> output_path,
   transformations |-> [k \in 1..Len(report.supported_plugins) |->
                          TransformationPreview(report.supported_plugins[k])],
   unsupported_plugins |-> report.unsupported_plugins,
   notes |-> IF report.unsupported_plugins # <<>>
             THEN "Contains unsupported features - review TODO markers" ELSE ""]

\* api.py 45-48
MigrationResult(dry_run, total_files) ==
  [is_dry_run |-> dry_run, previews |-> <<>>, reports |-> <<>>,
   total_files |-> total_files, successful |-> 0, failed |-> 0]

(* ---------------- api.py: migrate_directory; cli.py: migrate ---------------- *)

\* no single call of an orchestrator is in progress
CallIdle ==
  /\ fn = "none"
  /\ doc = Document(<<>>, <<>>, <<>>)
  /\ pc = "idle"
  /\ idx = 0
  /\ locals = InitLocals
  /\ ret = Pending

BatchInit ==
  /\ command \in {"migrate_directory", "migrate"}
  /\ options \in [dry_run : BOOLEAN, validate : BOOLEAN, overwrite : BOOLEAN,
                  output_dir : BOOLEAN]
  /\ command = "migrate" => ~options.overwrite   \* the CLI has no such option
  /\ conf_files \in find_conf_files
  /\ \E existing \in BOOLEAN :
       fsys = [p \in AllTargets |->
                 IF existing /\ p # ReportPath THEN OldFile ELSE Absent]
  /\ bpc = "file"
  /\ bi = 1
  /\ result = MigrationResult(options.dry_run, Len(conf_files))
  /\ cur = Pending
  /\ registry = PLUGIN_REGISTRY
  /\ CallIdle
  /\ ParseIdle
  /\ latest = <<>>
  /\ calls = <<>>
  /\ unit = <<>>

\* the loop variable conf_file and its output_path
CurFile == conf_files[bi]

CurOut == OutputPath(CurFile, options.output_dir)

\* migrate_config(conf_file, output_path): what it returns, or the OSError
\* of read_text that leaves it
CurCall ==
  IF CurFile.kind = "unreadable" THEN Threw
  ELSE migrate_config(ConfDocument(CurFile.kind))

\* the local migration_report after the call
CurReport == FileReport(CurFile, CurOut, cur.report[1])

\* the loop goes on with the next file
Advance(res) ==
  /\ result' = res
  /\ bi' = bi + 1
  /\ bpc' = "file"

\* path.write_text(text): the file is written; or open() fails and nothing
\* changes; or the write fails after open() has truncated the file
WriteOutcomes == {"written", "refused", "truncated"}

WriteText(path, content, outcome) ==
  CASE outcome = "written" -> [fsys EXCEPT ![path] = content]
    [] outcome = "truncated" -> [fsys EXCEPT ![path] = <<"truncated">>]
    [] OTHER -> fsys

\* mutation: a declined overwrite skips the file without counting it
ApiNextFile_DeclinedNotCounted ==
  /\ command = "migrate_directory"
  /\ bpc = "file"
  /\ bi <= Len(conf_files)
  /\ IF ~options.dry_run /\ fsys[CurOut] # Absent /\ ~options.overwrite
     THEN \E answer \in BOOLEAN :
            IF answer
            THEN bpc' = "migrate" /\ UNCHANGED <<bi, result>>
            ELSE Advance(result)
     ELSE bpc' = "migrate" /\ UNCHANGED <<bi, result>>
  /\ UNCHANGED <<command, options, conf_files, fsys, cur>>
  /\ UNCHANGED nonBatchVars

\* api.py 50-62: the output path and the overwrite prompt
ApiNextFile ==
  /\ command = "migrate_directory"
  /\ bpc = "file"
  /\ bi <= Len(conf_files)
  /\ IF ~options.dry_run /\ fsys[CurOut] # Absent /\ ~options.overwrite
     THEN \E answer \in BOOLEAN :
            IF answer
            THEN bpc' = "migrate" /\ UNCHANGED <<bi, result>>
            ELSE Advance([result EXCEPT !.failed = @ + 1])
     ELSE bpc' = "migrate" /\ UNCHANGED <<bi, result>>
  /\ UNCHANGED <<command, options, conf_files, fsys, cur>>
  /\ UNCHANGED nonBatchVars

\* api.py 67, 108; cli.py 83: the call of migrate_config for the file
CallMigrateConfig ==
  /\ \/ command = "migrate_directory" /\ bpc = "migrate"
     \/ command = "migrate" /\ bpc = "file" /\ bi <= Len(conf_files)
  /\ cur' = CurCall
  /\ bpc' = "called"
  /\ UNCHANGED <<command, options, conf_files, fsys, bi, result>>
  /\ UNCHANGED nonBatchVars

\* api.py 64-103: dry-run mode, the preview of one file
ApiPreview ==
  /\ command = "migrate_directory"
  /\ bpc = "called"
  /\ options.dry_run
  /\ IF cur.status = "raised"
     THEN Advance([result EXCEPT !.failed = @ + 1])
     ELSE Advance([result EXCEPT
            !.previews = Append(@, MigrationPreview(CurFile, CurOut, CurReport)),
            !.successful = IF CurReport.errors = <<>> THEN @ + 1 ELSE @,
            !.failed = IF CurReport.errors # <<>> THEN @ + 1 ELSE @])
  /\ UNCHANGED <<command, options, conf_files, fsys, cur>>
  /\ UNCHANGED nonBatchVars

\* mutation: a produced document is written although errors were recorded
ApiMigrate_WritesDespiteErrors ==
  /\ command = "migrate_directory"
  /\ bpc = "called"
  /\ ~options.dry_run
  /\ IF cur.status = "raised"
     THEN Advance([result EXCEPT !.failed = @ + 1])
     ELSE LET res == [result EXCEPT !.reports = Append(@, CurReport)] IN
          IF cur.config # <<>>
          THEN /\ result' = res
               /\ bpc' = "write"
               /\ bi' = bi
          ELSE Advance([res EXCEPT !.failed = @ + 1])
  /\ UNCHANGED <<command, options, conf_files, fsys, cur>>
  /\ UNCHANGED nonBatchVars

\* mutation: the live branch is taken whatever dry_run says
ApiMigrate_IgnoresDryRun ==
  /\ command = "migrate_directory"
  /\ bpc = "called"
  /\ IF cur.status = "raised"
     THEN Advance([result EXCEPT !.failed = @ + 1])
     ELSE LET res == [result EXCEPT !.reports = Append(@, CurReport)] IN
          IF cur.config # <<>> /\ CurReport.errors = <<>>
          THEN /\ result' = res
               /\ bpc' = "write"
               /\ bi' = bi
          ELSE Advance([res EXCEPT !.failed = @ + 1])
  /\ UNCHANGED <<command, options, conf_files, fsys, cur>>
  /\ UNCHANGED nonBatchVars

\* api.py 105-111, 135-143: live mode, the outcome of the translation
ApiMigrate ==
  /\ command = "migrate_directory"
  /\ bpc = "called"
  /\ ~options.dry_run
  /\ IF cur.status = "raised"
     THEN Advance([result EXCEPT !.failed = @ + 1])
     ELSE LET res == [result EXCEPT !.reports = Append(@, CurReport)] IN
          IF cur.config # <<>> /\ CurReport.errors = <<>>
          THEN /\ result' = res
               /\ bpc' = "write"
               /\ bi' = bi
          ELSE Advance([res EXCEPT !.failed = @ + 1])
  /\ UNCHANGED <<command, options, conf_files, fsys, cur>>
  /\ UNCHANGED nonBatchVars

\* api.py 112-114, 133-134, 138-143: the TOML text is written
ApiWrite ==
  /\ command = "migrate_directory"
  /\ bpc = "write"
  /\ \E outcome \in WriteOutcomes :
       /\ fsys' = WriteText(CurOut, TomlOf(CurFile), outcome)
       /\ IF outcome # "written"
          THEN Advance([result EXCEPT !.failed = @ + 1])
          ELSE IF options.validate
          THEN bpc' = "validate" /\ UNCHANGED <<bi, result>>
          ELSE Advance([result EXCEPT !.successful = @ + 1])
  /\ UNCHANGED <<command, options, conf_files, cur>>
  /\ UNCHANGED nonBatchVars

\* utils/validation.py 8-49 on the file written for conf_file: the verdict
\* of the validator
validate_vector_config(conf_file) == conf_file.kind # "rejected"

\* api.py 116-132: validate_vector_config(output_path) and its outcome
ApiValidate ==
  /\ command = "migrate_directory"
  /\ bpc = "validate"
  /\ LET is_valid == validate_vector_config(CurFile) IN
       IF is_valid
       THEN Advance([result EXCEPT !.successful = @ + 1])
       ELSE Advance([result EXCEPT
              !.reports[Len(result.reports)].errors = Append(@,
                 MigrationError("validation_error",
                   <<"Vector validation failed: ", "error_msg">>, 0, "error_msg")),
              !.failed = @ + 1])
  /\ UNCHANGED <<command, options, conf_files, fsys, cur>>
  /\ UNCHANGED nonBatchVars

\* api.py 145
ApiReturn ==
  /\ command = "migrate_directory"
  /\ bpc = "file"
  /\ bi > Len(conf_files)
  /\ bpc' = "done"
  /\ UNCHANGED <<command, options, conf_files, fsys, bi, result, cur>>
  /\ UNCHANGED nonBatchVars

\* cli.py 84-86, 102-108: migrate_config was called outside any try
CliMigrate ==
  /\ command = "migrate"
  /\ bpc = "called"
  /\ IF cur.status = "raised"
     THEN bpc' = "raised" /\ UNCHANGED <<bi, result>>
     ELSE LET res == [result EXCEPT !.reports = Append(@, CurReport)] IN
          IF cur.config # <<>> /\ CurReport.errors = <<>>
          THEN IF ~options.dry_run
               THEN /\ result' = res
                    /\ bpc' = "write"
                    /\ bi' = bi
               ELSE Advance([res EXCEPT !.successful = @ + 1])
          ELSE Advance([res EXCEPT !.failed = @ + 1])
  /\ UNCHANGED <<command, options, conf_files, fsys, cur>>
  /\ UNCHANGED nonBatchVars

\* cli.py 88-91: the TOML text is written
CliWrite ==
  /\ command = "migrate"
  /\ bpc = "write"
  /\ \E outcome \in WriteOutcomes :
       /\ fsys' = WriteText(CurOut, TomlOf(CurFile), outcome)
       /\ IF outcome # "written"
          THEN bpc' = "raised" /\ UNCHANGED <<bi, result>>
          ELSE IF options.validate
          THEN bpc' = "validate" /\ UNCHANGED <<bi, result>>
          ELSE Advance([result EXCEPT !.successful = @ + 1])
  /\ UNCHANGED <<command, options, conf_files, cur>>
  /\ UNCHANGED nonBatchVars

\* cli.py 93-101: vector_config.validate_syntax(); its verdict is printed
\* when verbose and the file is counted as successful either way
CliValidate ==
  /\ command = "migrate"
  /\ bpc = "validate"
  /\ LET is_valid == validate_vector_config(CurFile) IN
       Advance([result EXCEPT !.successful = @ + 1])
  /\ UNCHANGED <<command, options, conf_files, fsys, cur>>
  /\ UNCHANGED nonBatchVars

\* cli.py 52-54, 110-135: the summary and the combined report
CliReport ==
  /\ command = "migrate"
  /\ bpc = "file"
  /\ bi > Len(conf_files)
  /\ IF conf_files # <<>> /\ ~options.dry_run
     THEN \E outcome \in WriteOutcomes :
            /\ fsys' = WriteText(ReportPath, CombinedReport, outcome)
            /\ bpc' = IF outcome = "written" THEN "done" ELSE "raised"
     ELSE fsys' = fsys /\ bpc' = "done"
  /\ UNCHANGED <<command, options, conf_files, bi, result, cur>>
  /\ UNCHANGED nonBatchVars

BatchNext ==
  \/ CallMigrateConfig
  \/ ApiNextFile
  \/ ApiPreview
  \/ ApiMigrate
  \/ ApiWrite
  \/ ApiValidate
  \/ ApiReturn
  \/ CliMigrate
  \/ CliWrite
  \/ CliValidate
  \/ CliReport

SpecBatch == BatchInit /\ [][BatchNext]_vars

(* ---------------- the texts explored by the parser ---------------- *)

Spaces8 == <<" ", " ", " ", " ", " ", " ", " ", " ">>

\* the white space before a plugin name: none, a blank, a new line, a new
\* line with an indent of two, a new line with an indent of eight
NameGaps ==
  {<<>>, <<" ">>, <<"\n">>, <<"\n", " ", " ">>, <<"\n">> \o Spaces8}

W_input == <<"i", "n", "p", "u", "t">>

W_filter == <<"f", "i", "l", "t", "e", "r">>

W_output == <<"o", "u", "t", "p", "u", "t">>

W_file == <<"f", "i", "l", "e">>

W_beats == <<"b", "e", "a", "t", "s">>

W_grok == <<"g", "r", "o", "k">>

W_stdout == <<"s", "t", "d", "o", "u", "t">>

\* path => "/a"
W_setting ==
  <<" ", "p", "a", "t", "h", " ", "=", ">", " ", "\"", "/", "a", "\"", " ">>

\* one text per layout: where the new lines and the indents are, whether
\* the first plugin has settings, whether a second input plugin, a filter
\* block and an output plugin are there
LayoutText(y) ==
  y.lead \o W_input \o y.g1 \o <<"{">>
    \o y.g2 \o W_file \o y.g3 \o <<"{">> \o y.body \o <<"}">>
    \o (IF y.second THEN y.g4 \o W_beats \o <<" ", "{", "}">> ELSE <<>>)
    \o <<"\n", "}", "\n">>
    \o (IF y.filters
        THEN W_filter \o <<" ", "{">> \o y.g4 \o W_grok \o <<" ", "{", "}", " ", "}", "\n">>
        ELSE <<>>)
    \o W_output \o <<" ", "{">>
    \o (IF y.sink THEN y.g2 \o W_stdout \o <<" ", "{", "}">> ELSE <<>>)
    \o <<"\n", "}", "\n">>

Layouts ==
  [lead : {<<>>, <<"\n">>},
   g1 : {<<>>, <<" ">>, <<"\n">>},
   g2 : NameGaps,
   g3 : {<<" ">>, <<"\n">>},
   body : {<<>>, W_setting},
   second : BOOLEAN,
   g4 : {<<" ">>, <<"\n", " ", " ">>},
   filters : BOOLEAN,
   sink : BOOLEAN]

(* ---------------- parse_file_regex as a state machine ---------------- *)

ParseInit ==
  /\ \E y \in Layouts : raw_content = LayoutText(y)
  /\ ppc = "blocks"
  /\ blocks = <<>>
  /\ bk = 0
  /\ parsed = [inputs |-> <<>>, filters |-> <<>>, outputs |-> <<>>]
  /\ registry = PLUGIN_REGISTRY
  /\ CallIdle
  /\ BatchIdle
  /\ latest = <<>>
  /\ calls = <<>>
  /\ unit = <<>>

\* line 147
ExtractBlocks ==
  /\ ppc = "blocks"
  /\ blocks' = _extract_blocks(raw_content)
  /\ bk' = 1
  /\ ppc' = "plugins"
  /\ UNCHANGED <<raw_content, parsed>>
  /\ UNCHANGED nonParseVars

\* lines 149-177: one iteration of the loop over the blocks
ExtractPlugins ==
  /\ ppc = "plugins"
  /\ bk <= Len(blocks)
  /\ LET block == blocks[bk]
         plugins == _extract_plugins(block.block_content, block.start_position,
                                     raw_content)
         made(ptype) == [k \in 1..Len(plugins) |->
                           LogstashPlugin(ptype, plugins[k].plugin_name,
                                          plugins[k].config, plugins[k].line_number)]
     IN parsed' =
          CASE block.block_type = W_input ->
                 [parsed EXCEPT !.inputs = @ \o made("input")]
            [] block.block_type = W_filter ->
                 [parsed EXCEPT !.filters = @ \o made("filter")]
            [] OTHER -> [parsed EXCEPT !.outputs = @ \o made("output")]
  /\ bk' = bk + 1
  /\ UNCHANGED <<raw_content, ppc, blocks>>
  /\ UNCHANGED nonParseVars

\* lines 179-191: the document is returned or ValueError is raised
ParseFinish ==
  /\ ppc = "plugins"
  /\ bk > Len(blocks)
  /\ ppc' = IF parse_file_regex(parsed).ok THEN "returned" ELSE "raised"
  /\ UNCHANGED <<raw_content, blocks, bk, parsed>>
  /\ UNCHANGED nonParseVars

ParseNext ==
  \/ ExtractBlocks
  \/ ExtractPlugins
  \/ ParseFinish

SpecParse == ParseInit /\ [][ParseNext]_vars

(* ---------------- the texts explored by the block scanner ---------------- *)

\* one text per shape: what stands directly before and after the role
\* keyword, how the keyword is cased, what stands between it and the brace,
\* what the block holds and how the text ends (with the closing brace,
\* without it, with one brace too many, with text after it)
ScanText(y) ==
  y.before \o y.word \o y.after \o y.gap \o <<"{">> \o y.inner \o y.close

ScanShapes ==
  [before : {<<>>, <<"m", "y">>, <<"_">>, <<"9">>, <<"}", "\n">>},
   word : {W_input, <<"I", "N", "P", "U", "T">>, <<"O", "u", "t", "p", "u", "t">>,
           W_filter},
   after : {<<>>, <<"s">>, <<"_", "x">>, <<"1">>},
   gap : {<<>>, <<" ">>, <<"\n", " ">>, <<" ", "=", ">", " ">>},
   inner : {<<>>,
            <<" ">> \o W_file \o <<" ", "{">> \o W_setting \o <<"}", " ">>,
            <<" ">> \o W_grok \o <<" ", "{", " ", "a", " ", "{", "b", "}", " ", "}">>,
            <<" ">> \o W_file \o <<" ", "{">> \o W_setting},
   close : {<<"}">>, <<>>, <<"}", "}">>, <<"}", "\n", "x">>}]

ScanInit ==
  /\ \E y \in ScanShapes : raw_content = ScanText(y)
  /\ ppc = "blocks"
  /\ blocks = <<>>
  /\ bk = 0
  /\ parsed = [inputs |-> <<>>, filters |-> <<>>, outputs |-> <<>>]
  /\ registry = PLUGIN_REGISTRY
  /\ CallIdle
  /\ BatchIdle
  /\ latest = <<>>
  /\ calls = <<>>
  /\ unit = <<>>

SpecScan == ScanInit /\ [][ParseNext]_vars

(* ---------------- one transformer on one plugin ---------------- *)

\* the settings of a file input: path absent or of each type the value
\* decoder gives, start_position absent or given, tags absent or given
FilePathSettings ==
  {<<>>,
   <<<<"path", Str(<<"/var/log/app.log">>)>>>>,
   <<<<"path", Str(<<"/var/log/*.log">>)>>>>,
   <<<<"path", List(<<<<"/var/log/a.log">>, <<"/var/log/b.log">>>>)>>>>,
   <<<<"path", Int("5")>>>>,
   <<<<"path", Bool("true")>>>>,
   <<<<"path", Dict(<<<<"a">>, <<"/var/log/app.log">>>>)>>>>}

FileStartSettings ==
  {<<>>,
   <<<<"start_position", Str(<<"beginning">>)>>>>,
   <<<<"start_position", Str(<<"end">>)>>>>}

FileTagSettings ==
  {<<>>, <<<<"tags", List(<<<<"app">>>>)>>>>}

UnitPlugins ==
  {LogstashPlugin("input", <<"file">>, a \o b \o c, 2) :
     a \in FilePathSettings, b \in FileStartSettings, c \in FileTagSettings}
  \cup {LogstashPlugin("input", <<"beats">>, a \o b, 2) :
          a \in {<<>>, <<<<"port", Int("5044")>>>>},
          b \in {<<>>, <<<<"host", Str(<<"10.0.0.1">>)>>>>}}
  \cup {LogstashPlugin("input", d.name, d.config, 2) : d \in InputPool}
  \cup {LogstashPlugin("filter", d.name, d.config, 2) : d \in FilterPool}
  \cup {LogstashPlugin("output", d.name, d.config, 2) : d \in OutputPool}

\* a plugin is about to be handed to its transformer
UnitInit ==
  /\ \E plugin \in UnitPlugins :
       unit = [plugin |-> plugin, pc |-> "lookup", transformer |-> "None",
               out |-> Raised]
  /\ registry = PLUGIN_REGISTRY
  /\ CallIdle
  /\ BatchIdle
  /\ ParseIdle
  /\ latest = <<>>
  /\ calls = <<>>

\* transformer = get_transformer(plugin.plugin_type, plugin.plugin_name)
UnitLookup ==
  /\ unit # <<>>
  /\ unit.pc = "lookup"
  /\ LET transformer == get_transformer(unit.plugin.plugin_type,
                                        unit.plugin.plugin_name)
     IN unit' = [unit EXCEPT !.transformer = transformer,
                             !.pc = IF transformer = "None" THEN "unsupported"
                                    ELSE "transform"]
  /\ UNCHANGED nonUnitVars

\* component = transformer.transform(plugin)
UnitTransform ==
  /\ unit # <<>>
  /\ unit.pc = "transform"
  /\ unit' = [unit EXCEPT !.out = transform(unit.transformer, unit.plugin),
                          !.pc = "done"]
  /\ UNCHANGED nonUnitVars

UnitNext ==
  \/ UnitLookup
  \/ UnitTransform

SpecUnit == UnitInit /\ [][UnitNext]_vars

(* ---------------- transformers/__init__.py: the registry alone ---------------- *)

\* the names and transformers of the register_transformer calls explored
RegNames == {<<"file">>, <<"grok">>}

RegTransformers ==
  {"FileInputTransformer", "FileOutputTransformer", "GrokFilterTransformer"}

RegPairs == PluginType \X RegNames

\* lines 26-30: the three empty dicts, before any registration
RegistryInit ==
  /\ registry = {}
  /\ latest = [p \in RegPairs |-> "None"]
  /\ CallIdle
  /\ BatchIdle
  /\ ParseIdle
  /\ calls = <<>>
  /\ unit = <<>>

\* one call register_transformer(plugin_type, plugin_name, transformer)
Register ==
  \E plugin_type \in PluginType, plugin_name \in RegNames,
     transformer \in RegTransformers :
    /\ registry' = register_transformer(registry, plugin_type, plugin_name,
                                        transformer)
    /\ latest' = [latest EXCEPT ![<<plugin_type, plugin_name>>] = transformer]
    /\ UNCHANGED nonRegistryVars

RegistryNext == Register

SpecRegistry == RegistryInit /\ [][RegistryNext]_vars

(* ---------------- migration.py: migrate_config calls side by side ---------------- *)

\* largest number of plugins in a document of a concurrent call
MaxConcPlugins == 3

\* the callers (threads) that run migrate_config at the same time
CallIds == {1, 2}

ConcInputPool ==
  {p \in InputPool : p.name \in {<<"file">>, <<"kafka">>}}

ConcFilterPool ==
  {p \in FilterPool : p.name \in {<<"grok">>}
                        \/ p.config = <<<<"remove_field", Int("5")>>>>}

ConcOutputPool ==
  {p \in OutputPool : p.name = <<"file">>}

ConcDocuments ==
  UNION {UNION {UNION {
    {Document(ins, fs, outs) : ins \in [1..ni -> ConcInputPool],
                               fs \in [1..nf -> ConcFilterPool],
                               outs \in [1..no -> ConcOutputPool]} :
      no \in 0..(MaxConcPlugins - ni - nf)} :
      nf \in 0..(MaxConcPlugins - ni)} :
      ni \in 0..MaxConcPlugins}

\* the frame of a call that has just been entered (lines 32-40): its
\* argument and its own fresh lists
Frame(d) ==
  [doc |-> d, pc |-> "parse", idx |-> 0, locals |-> InitLocals, ret |-> Pending]

\* mutation: the lists and dicts are module-level objects shared by all calls
StoreLocals_Shared(cs, c, l) ==
  [k \in DOMAIN cs |-> [cs[k] EXCEPT !.locals = l]]

\* the lists and dicts of lines 37-40 and 67-73 are local variables created
\* in the call: an append or a dict store changes the frame of call c only
StoreLocals(cs, c, l) ==
  [cs EXCEPT ![c].locals = l]

ConcInit ==
  /\ calls \in [CallIds -> {Frame(d) : d \in ConcDocuments}]
  /\ calls[1].doc # calls[2].doc
  /\ unit = <<>>
  /\ registry = PLUGIN_REGISTRY
  /\ CallIdle
  /\ BatchIdle
  /\ ParseIdle
  /\ latest = <<>>

\* lines 42-44 of call c
ConcParseOk(c) ==
  /\ calls[c].pc = "parse"
  /\ parse_file_regex(calls[c].doc).ok
  /\ calls' = [calls EXCEPT ![c].pc = LoopFrom(calls[c].doc, "inputs")]
  /\ UNCHANGED nonConcVars

\* lines 45-64 of call c
ConcParseFail(c) ==
  /\ calls[c].pc = "parse"
  /\ ~parse_file_regex(calls[c].doc).ok
  /\ LET l == [calls[c].locals EXCEPT !.errors = Append(@,
                 MigrationError("parse_error",
                                parse_file_regex(calls[c].doc).message, 0, "None"))]
     IN calls' = [StoreLocals(calls, c, l) EXCEPT
                    ![c].pc = "done",
                    ![c].ret = [status |-> "returned", config |-> <<>>,
                                report |-> <<MigrationReport(l)>>]]
  /\ UNCHANGED nonConcVars

\* one iteration of a loop of call c (76-210); get_transformer reads the
\* registry all calls share
ConcLoop(c, role) ==
  /\ calls[c].pc = role
  /\ LET f == calls[c]
         l == MigrateStep(role, f.locals, RoleList(f.doc, role)[f.idx + 1], f.idx)
     IN calls' = [StoreLocals(calls, c, l) EXCEPT
                    ![c].pc = NextPc(f.doc, role, f.idx),
                    ![c].idx = NextIdx(f.doc, role, f.idx)]
  /\ UNCHANGED nonConcVars

ConcInput(c) == ConcLoop(c, "inputs")

ConcFilter(c) == ConcLoop(c, "filters")

ConcOutput(c) == ConcLoop(c, "outputs")

\* lines 212-260 of call c
ConcAssemble(c) ==
  /\ calls[c].pc = "assemble"
  /\ LET f == calls[c]
         l == [f.locals EXCEPT !.errors = MigrateAssembleErrors(f.locals)]
     IN calls' = [StoreLocals(calls, c, l) EXCEPT
                    ![c].pc = "done",
                    ![c].ret = MigrateReturn(f.locals)]
  /\ UNCHANGED nonConcVars

ConcNext ==
  \E c \in CallIds :
    \/ ConcParseOk(c)
    \/ ConcParseFail(c)
    \/ ConcInput(c)
    \/ ConcFilter(c)
    \/ ConcOutput(c)
    \/ ConcAssemble(c)

SpecConc == ConcInit /\ [][ConcNext]_vars

(* ======================================================================= *)
(* Properties                                                              *)
(* ======================================================================= *)

\* the components of the three dicts of a document (or of the locals)
ComponentsOf(c) ==
  {c.sources[i][2] : i \in 1..Len(c.sources)}
    \cup {c.transforms[i][2] : i \in 1..Len(c.transforms)}
    \cup {c.sinks[i][2] : i \in 1..Len(c.sinks)}

Returned_Config == ret.status = "returned" /\ ret.config # <<>>

Parsed == doc.inputs # <<>> /\ doc.outputs # <<>>

Registered(plugin) ==
  get_transformer(plugin.plugin_type, plugin.plugin_name) # "None"

\* transformer.transform(plugin) raises
Fails(plugin) ==
  /\ Registered(plugin)
  /\ ~transform(get_transformer(plugin.plugin_type, plugin.plugin_name), plugin).ok

AllPlugins == Range(doc.inputs) \cup Range(doc.filters) \cup Range(doc.outputs)

WiringOk(c) ==
  \A comp \in ComponentsOf(c) :
    /\ comp.component_type = "source" => comp.inputs = <<>>
    /\ comp.component_type \in {"transform", "sink"} => comp.inputs # <<>>

\* C1: in every document that migrate_config or transform_config returns,
\* a Source has no inputs and a Transform or a Sink has at least one.  The
\* second conjunct states that this is the wiring's doing and not only the
\* finalization check's: whenever the loops end with at least one source and
\* one sink, the components as wired already satisfy it.
C1_WiringInvariant ==
  /\ Returned_Config =>
       /\ WiringOk(ret.config[1])
       /\ \A i \in 1..Len(ret.config[1].sources) :
            ret.config[1].sources[i][2].component_type = "source"
       /\ \A i \in 1..Len(ret.config[1].transforms) :
            ret.config[1].transforms[i][2].component_type = "transform"
       /\ \A i \in 1..Len(ret.config[1].sinks) :
            ret.config[1].sinks[i][2].component_type = "sink"
  /\ (pc = "assemble" /\ locals.sources # <<>> /\ locals.sinks # <<>>)
       => WiringOk(locals)

\* a document returned for a text that mixes supported plugins with an
\* unsupported one and one whose transform fails
C1_Witness ==
  /\ Returned_Config
  /\ fn = "migrate_config"
  /\ ret.config[1].sinks # <<>>
  /\ \E p \in AllPlugins : Fails(p)
  /\ \E p \in AllPlugins : ~Registered(p)

\* C2: the identifiers assigned within one document are pairwise distinct
\* across sources, transforms and sinks, and every plugin that produced a
\* component still has it: nothing was overwritten under a reused key.
C2_IdentifiersDistinct ==
  LET n == Len(locals.sources) + Len(locals.transforms) + Len(locals.sinks)
      keys == DictKeys(locals.sources) \cup DictKeys(locals.transforms)
                \cup DictKeys(locals.sinks)
  IN /\ Cardinality(keys) = n
     /\ fn = "migrate_config" => n = Len(locals.supported_plugins)
     /\ fn = "transform_config" =>
          n = Len(locals.supported_plugins) + Len(locals.unsupported_plugins)
     /\ Returned_Config => ret.config[1] = VectorConfiguration(locals)

\* a returned document with the same plugin name twice in one role and the
\* same name in two roles
C2_Witness ==
  /\ Returned_Config
  /\ \E i, j \in 1..Len(doc.filters) :
       i # j /\ doc.filters[i].plugin_name = doc.filters[j].plugin_name
  /\ \E p \in Range(doc.inputs) : \E q \in Range(doc.outputs) :
       p.plugin_name = q.plugin_name
  /\ Len(locals.transforms) >= 2

\* C3: in a returned document every identifier in a component's inputs is a
\* key of its sources or of its transforms.
C3_InputsResolve ==
  Returned_Config =>
    LET c == ret.config[1] IN
    \A comp \in ComponentsOf(c) : \A k \in 1..Len(comp.inputs) :
      comp.inputs[k] \in DictKeys(c.sources) \cup DictKeys(c.transforms)

\* a returned document, with a sink wired behind a transform, of a text in
\* which a filter was unsupported and another failed
C3_Witness ==
  /\ Returned_Config
  /\ fn = "migrate_config"
  /\ \E p \in Range(doc.filters) : Fails(p)
  /\ \E p \in Range(doc.filters) : ~Registered(p)
  /\ ret.config[1].sinks # <<>>

\* C4 (as claimed): when the text has an input and an output plugin and
\* every plugin has a registered transformer, migrate_config returns a
\* document with sources and sinks and a success rate of 1.0.
C4_AllRegisteredSucceeds ==
  (/\ fn = "migrate_config" /\ pc = "done" /\ Parsed
   /\ \A p \in AllPlugins : Registered(p))
  => /\ ret.config # <<>>
     /\ ret.config[1].sources # <<>>
     /\ ret.config[1].sinks # <<>>
     /\ RateIs(success_rate(ret.report[1]), 1, 1)

(* ---------------- C5 ---------------- *)

Roles == {"inputs", "filters", "outputs"}

RoleRank(role) ==
  CASE role = "inputs" -> 1 [] role = "filters" -> 2 [] OTHER -> 3

RoleWord(role) ==
  CASE role = "inputs" -> "input" [] role = "filters" -> "filter" [] OTHER -> "output"

\* the positions <<role, i>> of the plugins whose transform raises
FailingPositions ==
  {pos \in Roles \X (1..MaxPlugins + 1) :
     /\ pos[2] <= Len(RoleList(doc, pos[1]))
     /\ Fails(RoleList(doc, pos[1])[pos[2]])}

Before(a, b) ==
  \/ RoleRank(a[1]) < RoleRank(b[1])
  \/ a[1] = b[1] /\ a[2] < b[2]

\* the enumerated list of role r once the plugin at pos is taken out:
\* renumbered from 0 (the text without the plugin), or with the indices the
\* remaining plugins have in the original list
ListWithout(pos, r, renumbered) ==
  IF r # pos[1] THEN Enumerate(RoleList(doc, r))
  ELSE IF renumbered THEN Enumerate(RemoveAt(RoleList(doc, r), pos[2]))
  ELSE RemoveAt(Enumerate(RoleList(doc, r)), pos[2])

FailureRecovered(pos, renumbered) ==
  LET p == RoleList(doc, pos[1])[pos[2]]
      k == 1 + Cardinality({q \in FailingPositions : Before(q, pos)})
      id == p.plugin_name \o <<RoleWord(pos[1]), IdxStr(pos[2] - 1)>>
      rest == MigrateLoops(ListWithout(pos, "inputs", renumbered),
                           ListWithout(pos, "filters", renumbered),
                           ListWithout(pos, "outputs", renumbered))
  IN \* exactly one transformation error, carrying the plugin's line
     /\ Len(locals.errors) >= k
     /\ locals.errors[k].error_type = "transformation_error"
     /\ locals.errors[k].line_number = p.line_number
     /\ Cardinality({e \in 1..Len(locals.errors) :
                       locals.errors[e].line_number = p.line_number}) = 1
     \* no component and no Supported record for it
     /\ id \notin DictKeys(locals.sources) \cup DictKeys(locals.transforms)
                    \cup DictKeys(locals.sinks)
     /\ \A m \in 1..Len(locals.supported_plugins) :
          id \notin Range(locals.supported_plugins[m].vector_components)
     \* everything else is what the other plugins alone produce
     /\ [locals EXCEPT !.errors = <<>>] = [rest EXCEPT !.errors = <<>>]
     /\ RemoveAt(locals.errors, k) = rest.errors

\* C5 (as claimed): a failing transform leaves one error with the plugin's
\* line, no component and no record, and the rest of the translation is that
\* of the text with the failed plugin absent.
C5_FailedPluginAsIfAbsent ==
  (fn = "migrate_config" /\ pc = "assemble") =>
    \A pos \in FailingPositions : FailureRecovered(pos, TRUE)

\* C5 (amended): as claimed, except that the later plugins of the same role
\* keep the position index of the original list in their identifiers.
C5_FailedPluginDropped ==
  (fn = "migrate_config" /\ pc = "assemble") =>
    \A pos \in FailingPositions : FailureRecovered(pos, FALSE)

\* the loops are over; a filter failed and a later filter was translated
C5_Witness ==
  /\ fn = "migrate_config" /\ pc = "assemble"
  /\ \E i, j \in 1..Len(doc.filters) :
       /\ i < j
       /\ Fails(doc.filters[i])
       /\ Registered(doc.filters[j]) /\ ~Fails(doc.filters[j])
  /\ locals.sinks # <<>>

(* ---------------- C6 ---------------- *)

ParseErrors(errors) ==
  {e \in 1..Len(errors) : errors[e].error_type = "parse_error"}

\* C6: parsing fails exactly when the text yields no input plugin or no
\* output plugin (a text without filters parses); migrate_config then
\* returns no document and a report holding exactly one parse error and no
\* Supported or Unsupported record, and nothing was translated.
C6_ParseFailsAsAWhole ==
  /\ (pc # "parse" /\ ~Parsed) =>
       /\ pc = "done"
       /\ locals.sources = <<>> /\ locals.transforms = <<>> /\ locals.sinks = <<>>
       /\ ret.config = <<>>
       /\ fn = "transform_config" => ret.status = "raised"
       /\ fn = "migrate_config" =>
            /\ ret.status = "returned"
            /\ Len(ret.report[1].errors) = 1
            /\ ret.report[1].errors[1].error_type = "parse_error"
            /\ ret.report[1].supported_plugins = <<>>
            /\ ret.report[1].unsupported_plugins = <<>>
  /\ (pc # "parse" /\ Parsed) =>
       /\ ParseErrors(locals.errors) = {}
       /\ ret.status = "returned" => ParseErrors(ret.report[1].errors) = {}
       /\ pc = "done" =>
            Len(locals.supported_plugins) + Len(locals.unsupported_plugins)
              + Len(locals.errors) >= 1

\* migrate_config has returned for a text with an input block and filters
\* but no output plugin
C6_Witness ==
  /\ fn = "migrate_config" /\ pc = "done"
  /\ doc.inputs # <<>> /\ doc.filters # <<>> /\ doc.outputs = <<>>
  /\ ret.status = "returned"

(* ---------------- C7 ---------------- *)

HasMessage(errors, message) ==
  \E e \in 1..Len(errors) :
    errors[e].error_type = "transformation_error" /\ errors[e].message = message

\* C7: after a text that parsed, migrate_config returns a document iff at
\* least one source and one sink were produced; without a source the report
\* has the "No source components generated" error, and with sources but no
\* sink it has the "No sink components generated" error.
C7_NoDocumentWithoutSourceOrSink ==
  (fn = "migrate_config" /\ pc = "done" /\ Parsed) =>
    LET errors == ret.report[1].errors IN
    /\ ret.status = "returned"
    /\ ret.config # <<>> <=> (locals.sources # <<>> /\ locals.sinks # <<>>)
    /\ locals.sources = <<>> => HasMessage(errors,
         <<"No source components generated - cannot create valid Vector config">>)
    /\ (locals.sources # <<>> /\ locals.sinks = <<>>) => HasMessage(errors,
         <<"No sink components generated - cannot create valid Vector config">>)
    /\ ret.config # <<>> =>
         /\ ret.config[1].sources # <<>>
         /\ ret.config[1].sinks # <<>>
         /\ \A e \in 1..Len(errors) : errors[e].line_number > 0

\* migrate_config has returned with sources but without any sink
C7_Witness ==
  /\ fn = "migrate_config" /\ pc = "done" /\ Parsed
  /\ locals.sources # <<>> /\ locals.sinks = <<>>
  /\ ret.config = <<>>

(* ---------------- C8 ---------------- *)

StartsWith(s, prefix) ==
  Len(s) >= Len(prefix) /\ SubSeq(s, 1, Len(prefix)) = prefix

DictOfRole(c, role) ==
  CASE role = "inputs" -> c.sources
    [] role = "filters" -> c.transforms
    [] OTHER -> c.sinks

\* C8 (as claimed): migrate_config adds, for every plugin without a
\* registered transformer, a placeholder component with annotations under
\* its own identifier; a kafka input with a file output gives a document
\* with a placeholder Source, 1 Supported and 1 Unsupported record (kafka)
\* and a success rate of 0.5.
C8_MigratePlaceholders ==
  (fn = "migrate_config" /\ pc = "done" /\ Parsed) =>
    /\ \A role \in Roles : \A i \in 1..Len(RoleList(doc, role)) :
         ~Registered(RoleList(doc, role)[i]) =>
           \E k \in 1..Len(DictOfRole(locals, role)) :
             /\ DictOfRole(locals, role)[k][2].comments # <<>>
             /\ StartsWith(DictOfRole(locals, role)[k][1],
                           RoleList(doc, role)[i].plugin_name)
    /\ (/\ Len(doc.inputs) = 1 /\ doc.inputs[1].plugin_name = <<"kafka">>
        /\ doc.filters = <<>>
        /\ Len(doc.outputs) = 1 /\ doc.outputs[1].plugin_name = <<"file">>)
       => /\ ret.config # <<>>
          /\ Len(ret.report[1].supported_plugins) = 1
          /\ Len(ret.report[1].unsupported_plugins) = 1
          /\ ret.report[1].unsupported_plugins[1].plugin_name = <<"kafka">>
          /\ RateIs(success_rate(ret.report[1]), 1, 2)

(* ---------------- C9 ---------------- *)

ComponentTypeOfRole(role) ==
  CASE role = "inputs" -> "source"
    [] role = "filters" -> "transform"
    [] OTHER -> "sink"

\* the tokens that contain the substring "TODO"
TodoTokens == {"TODO: Manual migration required for unsupported plugin '"}

\* some line of comments, from its third token on, is text
HasIndented(comments, text) ==
  \E c \in 1..Len(comments) :
    /\ Len(comments[c]) = Len(text) + 1
    /\ SubSeq(comments[c], 2, Len(comments[c])) = text

\* text occurs in line as a contiguous run of tokens
Occurs(text, line) ==
  \E a \in 1..(Len(line) + 1) :
    a + Len(text) - 1 <= Len(line) /\ SubSeq(line, a, a + Len(text) - 1) = text

UnsupportedPositions ==
  {pos \in Roles \X (1..MaxPlugins + 1) :
     /\ pos[2] <= Len(RoleList(doc, pos[1]))
     /\ ~Registered(RoleList(doc, pos[1])[pos[2]])}

IsPlaceholder(comp) ==
  comp.comments # <<>> /\ Head(comp.comments) # <<>>
    /\ Head(Head(comp.comments)) \in TodoTokens

PlaceholdersIn(d) == {k \in 1..Len(d) : IsPlaceholder(d[k][2])}

\* C9: in the result of transform_config every plugin without a registered
\* transformer has exactly one Unsupported record (name, role, line,
\* non-empty guidance) and exactly one placeholder component of the kind of
\* its role, whose annotations hold a TODO line naming the plugin and the
\* role, every line of the settings as text, every alternative and every
\* line of the guidance.
C9_TransformPlaceholders ==
  (fn = "transform_config" /\ ret.status = "returned") =>
    LET c == ret.config[1]
        r == ret.report[1]
    IN /\ Len(r.unsupported_plugins) = Cardinality(UnsupportedPositions)
       /\ Cardinality(PlaceholdersIn(c.sources)) + Cardinality(PlaceholdersIn(c.transforms))
            + Cardinality(PlaceholdersIn(c.sinks)) = Cardinality(UnsupportedPositions)
       /\ \A pos \in UnsupportedPositions :
            LET p == RoleList(doc, pos[1])[pos[2]]
                d == DictOfRole(c, pos[1])
                recs == {u \in 1..Len(r.unsupported_plugins) :
                           r.unsupported_plugins[u].line_number = p.line_number}
                holders == {k \in PlaceholdersIn(d) :
                              /\ Occurs(JoinName(p.plugin_name) \o <<"' (", RoleWord(pos[1]), ")">>,
                                        Head(d[k][2].comments))
                              /\ StartsWith(d[k][1], p.plugin_name)
                              /\ d[k][1][Len(d[k][1])] =
                                   (IF pos[2] = 1 THEN "placeholder" ELSE IdxStr(pos[2] - 1))}
            IN /\ Cardinality(recs) = 1
               /\ \A u \in recs :
                    LET rec == r.unsupported_plugins[u] IN
                    /\ rec.plugin_name = p.plugin_name
                    /\ rec.plugin_type = RoleWord(pos[1])
                    /\ rec.manual_migration_guidance # <<>>
                    /\ \A g \in 1..Len(rec.manual_migration_guidance) :
                         rec.manual_migration_guidance[g] # <<>>
               /\ Cardinality(holders) = 1
               /\ \A k \in holders :
                    LET comp == d[k][2]
                        rec == r.unsupported_plugins[CHOOSE u \in recs : TRUE]
                    IN /\ comp.component_type = ComponentTypeOfRole(pos[1])
                       /\ \A n \in 1..Len(p.config) :
                            \E line \in Range(comp.comments) :
                              /\ Occurs(<<p.config[n][1], IF p.config[n][2].t = "str"
                                           THEN " => \"" ELSE " => ">>, line)
                              /\ \A x \in 1..Len(p.config[n][2].v) :
                                   Occurs(p.config[n][2].v[x], line)
                       /\ rec.vector_alternatives # <<>>
                       /\ \A a \in 1..Len(rec.vector_alternatives) :
                            HasIndented(comp.comments, rec.vector_alternatives[a])
                       /\ \A g \in 1..Len(rec.manual_migration_guidance) :
                            HasIndented(comp.comments, rec.manual_migration_guidance[g])

\* transform_config has returned for a text with an unsupported plugin in
\* each role, one of them with settings and one known to the guidance table
C9_Witness ==
  /\ fn = "transform_config" /\ ret.status = "returned"
  /\ \A role \in Roles : \E pos \in UnsupportedPositions : pos[1] = role
  /\ \E p \in Range(doc.inputs) : p.plugin_name = <<"kafka">>

(* ---------------- C10 ---------------- *)

\* C10: in migrate_config the inputs of the k-th Transform created are the
\* identifier of the (k-1)-th alone, or, for the first, all Source
\* identifiers in the order of creation; the inputs of a Sink are the
\* identifier of the last Transform alone, or all Source identifiers when no
\* Transform was created.
C10_MigrateLinearWiring ==
  fn = "migrate_config" =>
    LET srcs == [k \in 1..Len(locals.sources) |-> locals.sources[k][1]] IN
    /\ \A k \in 1..Len(locals.transforms) :
         locals.transforms[k][2].inputs =
           IF k > 1 THEN <<locals.transforms[k - 1][1]>> ELSE srcs
    /\ \A k \in 1..Len(locals.sinks) :
         locals.sinks[k][2].inputs =
           IF locals.transforms # <<>>
           THEN <<locals.transforms[Len(locals.transforms)][1]>> ELSE srcs

\* two sources, a transform behind them and a sink have been created
C10_Witness ==
  /\ fn = "migrate_config"
  /\ Len(locals.sources) = 2 /\ locals.transforms # <<>>
  /\ locals.sinks # <<>>

(* ---------------- C11 ---------------- *)

\* C11 (as claimed): in transform_config the inputs of the k-th Transform
\* (translated or placeholder) are the identifier of the (k-1)-th alone, or,
\* for the first, all Source identifiers; the inputs of a Sink are the
\* identifier of the last Transform alone, or all Source identifiers when no
\* Transform was created.
C11_TransformLinearWiring ==
  fn = "transform_config" =>
    LET srcs == [k \in 1..Len(locals.sources) |-> locals.sources[k][1]] IN
    /\ \A k \in 1..Len(locals.transforms) :
         locals.transforms[k][2].inputs =
           IF k > 1 THEN <<locals.transforms[k - 1][1]>> ELSE srcs
    /\ \A k \in 1..Len(locals.sinks) :
         locals.sinks[k][2].inputs =
           IF locals.transforms # <<>>
           THEN <<locals.transforms[Len(locals.transforms)][1]>> ELSE srcs

(* ---------------- C12 ---------------- *)

\* the reports of a state: the one being accumulated and the one returned
ReportsHere ==
  {MigrationReport(locals)}
    \cup (IF ret.status = "returned" THEN {ret.report[1]} ELSE {})

\* C12: for every report, success_rate is the number of Supported records
\* divided by the number of Supported plus Unsupported records, is 0.0 when
\* both numbers are zero, and lies between 0 and 1 inclusive.
C12_SuccessRate ==
  \A report \in ReportsHere :
    LET s == Len(report.supported_plugins)
        u == Len(report.unsupported_plugins)
        rate == success_rate(report)
    IN /\ rate[2] > 0
       /\ s + u > 0 => RateIs(rate, s, s + u)
       /\ s + u = 0 => RateIs(rate, 0, 1)
       /\ 0 <= rate[1] /\ rate[1] <= rate[2]

\* a returned report with Supported and Unsupported records and an error
C12_Witness ==
  /\ ret.status = "returned"
  /\ ret.report[1].supported_plugins # <<>>
  /\ ret.report[1].unsupported_plugins # <<>>
  /\ ret.report[1].errors # <<>>

(* ---------------- C13 ---------------- *)

\* C13 (as claimed): for every text that parses and in which no registered
\* transformer fails, the report migrate_config returns has no errors,
\* however many plugins are unsupported.
C13_UnsupportedNeverErrors ==
  (/\ fn = "migrate_config" /\ pc = "done" /\ Parsed
   /\ \A p \in AllPlugins : ~Fails(p))
  => ret.report[1].errors = <<>>

(* ---------------- C14 ---------------- *)

\* C14 (as claimed): once migrate_config has returned a report and
\* migrate_directory holds it, no later step changes any of its fields.
C14_ReportReadOnly ==
  [][\A k \in 1..Len(result.reports) :
       /\ k <= Len(result.reports')
       /\ result.reports'[k] = result.reports[k]]_vars

(* ---------------- C15 ---------------- *)

\* C15 (as claimed): whatever fails on one file, migrate_directory and the
\* CLI's migrate go on: when the run ends, no file after the current one is
\* left untranslated.
C15_BatchNeverStops ==
  bpc \in {"done", "raised"} => bi >= Len(conf_files)

(* ---------------- C16 ---------------- *)

\* the files of the run on which migrate_config returns
Readable(fs) == SelectSeq(fs, LAMBDA f : f.kind # "unreadable")

\* C16: with dry_run=True migrate_directory never creates or modifies a
\* file and its result holds no report and, once it has returned, one
\* preview per file that migrate_config returned for; with dry_run=False
\* the result holds no preview and only reports of files of the run.
C16_DryRunWritesNothing ==
  /\ [][(command = "migrate_directory" /\ options.dry_run) => fsys' = fsys]_vars
  /\ []((command = "migrate_directory" /\ options.dry_run) =>
          /\ result.reports = <<>>
          /\ result.is_dry_run
          /\ bpc = "done" =>
               /\ Len(result.previews) = Len(Readable(conf_files))
               /\ \A k \in 1..Len(result.previews) :
                    /\ result.previews[k].source_file.dir = Readable(conf_files)[k].dir
                    /\ result.previews[k].source_file.name = Readable(conf_files)[k].name)
  /\ []((command = "migrate_directory" /\ ~options.dry_run) =>
          /\ result.previews = <<>>
          /\ ~result.is_dry_run
          /\ \A k \in 1..Len(result.reports) :
               \E f \in Range(Readable(conf_files)) :
                 /\ result.reports[k].source_file.dir = f.dir
                 /\ result.reports[k].source_file.name = f.name)

\* a dry run has returned: two files, one of them unreadable, a preview for
\* the other, and target files that were there before the run
C16_Witness ==
  /\ command = "migrate_directory" /\ options.dry_run /\ bpc = "done"
  /\ Len(conf_files) = 2
  /\ Len(result.previews) = 1
  /\ \E p \in AllTargets : fsys[p] = OldFile

(* ---------------- C17 ---------------- *)

\* the offsets at which word occurs in text
OffsetsOf(word, text) ==
  {q \in 0..Len(text) : Slice(text, q, q + Len(word)) = word /\ word # <<>>}

ParsedPlugins ==
  Range(parsed.inputs) \cup Range(parsed.filters) \cup Range(parsed.outputs)

\* C17 (as claimed): the line number of every plugin the parser returns is
\* 1 plus the number of new lines in the raw text before the first character
\* of the plugin's name, wherever the new lines and indents are.
C17_LineOfPluginName ==
  \A p \in ParsedPlugins :
    \E q \in OffsetsOf(p.plugin_name, raw_content) :
      p.line_number = 1 + CountNewlines(Slice(raw_content, 0, q))

(* ---------------- C18 ---------------- *)

\* int(digits): the number a run of digits stands for
RECURSIVE ParseDec(_)
ParseDec(digits) ==
  IF digits = <<>> THEN 0
  ELSE 10 * ParseDec(SubSeq(digits, 1, Len(digits) - 1))
       + ((CHOOSE k \in 1..10 : DigitChars[k] = digits[Len(digits)]) - 1)

IsDigitChar(c) == \E k \in 1..10 : DigitChars[k] = c

\* the digits that follow the label at the start of a line
RECURSIVE LeadingDigits(_)
LeadingDigits(tokens) ==
  IF tokens = <<>> \/ ~IsDigitChar(Head(tokens)) THEN <<>>
  ELSE <<Head(tokens)>> \o LeadingDigits(Tail(tokens))

\* the lines of the text that begin with the label
LabelLines(text, label) ==
  {k \in 1..Len(text) : text[k] # <<>> /\ text[k][1] = label}

\* the number read back after the label
ReadCount(text, label) ==
  ParseDec(LeadingDigits(Tail(text[CHOOSE k \in LabelLines(text, label) : TRUE])))

SectionTitles ==
  {"## Summary", "## Successfully Migrated Plugins",
   "## Unsupported Plugins (Manual Migration Required)", "## Errors", "## Warnings"}

\* line k stands inside a code block: an odd number of fence lines precede it
Fenced(text, k) ==
  Cardinality({j \in 1..(k - 1) : text[j] = <<Fence>>}) % 2 = 1

\* the "## " headings above line k
TitlesAbove(text, k) ==
  {j \in 1..(k - 1) :
     Len(text[j]) = 1 /\ text[j][1] \in SectionTitles /\ ~Fenced(text, j)}

\* the "### " headings below the "## " heading of the title, up to the next
\* "## " heading; a line inside a code block is no heading
Subsections(text, title) ==
  Cardinality({k \in 1..Len(text) :
     /\ text[k] # <<>>
     /\ text[k][1] = "### "
     /\ ~Fenced(text, k)
     /\ LET above == TitlesAbove(text, k)
        IN /\ above # {}
           /\ text[CHOOSE j \in above : \A i \in above : i <= j] = <<title>>})

\* the reports an orchestrator has returned
ReturnedReports ==
  IF ret.status = "returned" THEN {ret.report[1]} ELSE {}

C19_CallsIndependent ==
  /\ [](\A c \in DOMAIN calls :
          calls[c].pc = "done" => calls[c].ret = migrate_config(calls[c].doc))
  /\ [][registry' = registry]_vars

\* both calls have returned: one a target document with a Supported record,
\* the other no document and an error
C19_Witness ==
  /\ calls # <<>>
  /\ calls[1].pc = "done" /\ calls[2].pc = "done"
  /\ calls[1].doc # calls[2].doc
  /\ calls[1].ret.config # <<>>
  /\ calls[1].ret.report[1].supported_plugins # <<>>
  /\ calls[2].ret.config = <<>>
  /\ calls[2].ret.report[1].errors # <<>>
  /\ calls[2].ret.report[1].unsupported_plugins # <<>>

(* ---------------- C20 ---------------- *)

\* C20: after any sequence of register_transformer calls, get_transformer
\* returns the transformer most recently registered under exactly that
\* (role, name) pair, and none when nothing was registered under it; a
\* registration leaves the result for every other pair, in particular the
\* same name under another role, unchanged.
C20_RegistryLookup ==
  /\ [](\A p \in DOMAIN latest : get_transformer(p[1], p[2]) = latest[p])
  /\ [][\E q \in RegPairs :
          \A r \in RegPairs \ {q} :
            get_transformer(r[1], r[2])' = get_transformer(r[1], r[2])]_vars

\* the name file is registered as an input and as an output with different
\* transformers and not as a filter, and grok is registered as a filter only
C20_Witness ==
  /\ latest # <<>>
  /\ latest[<<"input", <<"file">>>>] = "FileInputTransformer"
  /\ latest[<<"output", <<"file">>>>] = "FileOutputTransformer"
  /\ latest[<<"filter", <<"file">>>>] = "None"
  /\ latest[<<"filter", <<"grok">>>>] = "GrokFilterTransformer"
  /\ latest[<<"input", <<"grok">>>>] = "None"
  /\ get_transformer("input", <<"file">>) = "FileInputTransformer"


(* ---------------- C21 ---------------- *)

\* a character an identifier is made of
IsWordChar(c) == IsAlnum(c) \/ c = "_"

\* C21 (as claimed): every role block the scanner opens starts at an
\* occurrence of input, filter or output, in any letter case, that has no
\* identifier character directly before it or directly after it and is
\* followed, after white space only, by an opening brace.
C21_BlockAtWholeWord ==
  ppc # "blocks" =>
    \A k \in 1..Len(blocks) :
      LET s == blocks[k].start_position
          e == s + Len(blocks[k].block_type)
          brace == SkipSpace(raw_content, e)
      IN /\ blocks[k].block_type \in Range(block_keywords)
         /\ Lower(Slice(raw_content, s, e)) = blocks[k].block_type
         /\ s > 0 => ~IsWordChar(At(raw_content, s - 1))
         /\ e < Len(raw_content) => ~IsWordChar(At(raw_content, e))
         /\ brace < Len(raw_content) /\ At(raw_content, brace) = "{"

(* ---------------- C22 ---------------- *)

\* the offset of the closing brace at which the depth first returns to 0,
\* or the length of the text when it never does
ClosingBrace(text, open) ==
  LET closes == {j \in (open + 1)..(Len(text) - 1) :
                   /\ Cardinality({i \in open..j : At(text, i) = "{"})
                        = Cardinality({i \in open..j : At(text, i) = "}"})}
  IN IF closes = {} THEN Len(text)
     ELSE CHOOSE j \in closes : \A i \in closes : j <= i

\* the text strictly between the brace at offset open and its closing brace
BodyOf(text, open) == Slice(text, open + 1, ClosingBrace(text, open))

\* C22 (as claimed): for every text, balanced or not, the content of a role
\* block and the body of a plugin are exactly the text strictly between the
\* opening brace and the closing brace at which the depth first returns to
\* 0, and the next block starts after that closing brace.
C22_BodyBetweenBraces ==
  ppc # "blocks" =>
    /\ \A k \in 1..Len(blocks) :
         LET open == SkipSpace(raw_content,
                       blocks[k].start_position + Len(blocks[k].block_type))
         IN /\ blocks[k].block_content = BodyOf(raw_content, open)
            /\ k < Len(blocks) =>
                 blocks[k + 1].start_position > ClosingBrace(raw_content, open)
    /\ \A p \in ParsedPlugins :
         \E k \in 1..Len(blocks) :
           \E q \in OffsetsOf(p.plugin_name, blocks[k].block_content) :
             LET open == SkipSpace(blocks[k].block_content,
                                   q + Len(p.plugin_name))
             IN p.config = BodyOf(blocks[k].block_content, open)


(* ---------------- C23 ---------------- *)

\* the report of the file the loop is at: the last one appended
LastReport(res) == res.reports[Len(res.reports)]

HasValidationError(report) ==
  \E k \in 1..Len(report.errors) : report.errors[k].error_type = "validation_error"

\* C23 (as claimed): in live mode with validation requested, in
\* migrate_directory and in the CLI's migrate, whenever the validator
\* rejects the written target file, the step that receives the verdict
\* records a validation error in that file's report and leaves the target
\* document and the written files as they are.
C23_ValidationErrorRecorded ==
  [][(bpc = "validate" /\ ~validate_vector_config(CurFile)) =>
       /\ Len(result'.reports) = Len(result.reports)
       /\ HasValidationError(LastReport(result'))
       /\ cur'.config = cur.config
       /\ fsys' = fsys]_vars


(* ---------------- C24 ---------------- *)

\* C24 (as claimed): for every file input, whatever the type of its path
\* setting and also without one, FileInputTransformer.transform returns a
\* Source of kind file whose settings hold an include key with a list
\* value; a string path p gives include = [p].
C24_FileInputInclude ==
  (unit # <<>> /\ unit.pc = "done" /\ unit.transformer = "FileInputTransformer") =>
    /\ unit.out.ok
    /\ unit.out.comp.component_type = "source"
    /\ unit.out.comp.component_kind = <<"file">>
    /\ DictHas(unit.out.comp.config, "include")
    /\ DictGet(unit.out.comp.config, "include").t = "list"
    /\ \A p \in {<<"/var/log/app.log">>, <<"/var/log/*.log">>} :
         (/\ DictHas(unit.plugin.config, "path")
          /\ DictGet(unit.plugin.config, "path") = Str(p))
           => DictGet(unit.out.comp.config, "include") = List(<<p>>)

(* ---------------- C25 ---------------- *)

\* C25 (as claimed): every component a registered built-in transformer
\* produces for a supported plugin has an empty comments list.
C25_SupportedWithoutComments ==
  (unit # <<>> /\ unit.pc = "done" /\ unit.out.ok) =>
    unit.out.comp.comments = <<>>


(* ---------------- C26 ---------------- *)

\* C26: whenever migrate_directory returns, in dry-run and in live mode,
\* successful + failed equals total_files, the number of discovered files;
\* while the loop runs the two counters add up to the number of files it
\* has finished.
C26_EveryFileCountedOnce ==
  command = "migrate_directory" =>
    /\ result.total_files = Len(conf_files)
    /\ bpc = "file" => result.successful + result.failed = bi - 1
    /\ bpc = "done" => result.successful + result.failed = result.total_files

\* a live run over two files has returned: one file was written and counted
\* as successful, the other raised an exception in migrate_config
C26_Witness ==
  /\ command = "migrate_directory" /\ ~options.dry_run /\ bpc = "done"
  /\ Len(conf_files) = 2
  /\ result.successful = 1 /\ result.failed = 1
  /\ Len(result.reports) = 1
  /\ \E k \in 1..2 : conf_files[k].kind = "unreadable"


(* ---------------- C27 ---------------- *)

\* the errors recorded by the except clauses of the three loops
PluginErrors(errors) ==
  SelectSeq(errors, LAMBDA e : /\ e.error_type = "transformation_error"
                               /\ e.message[1] = "Failed to transform ")

\* the number of positions of s that satisfy Test
CountOf(s, Test(_)) == Cardinality({k \in 1..Len(s) : Test(s[k])})

\* the records that the returned report holds for the plugin at position k
\* (from 1) of a role: Supported, Unsupported, per-plugin error
OutcomesOf(report, role, k) ==
  LET plugin == RoleList(doc, role)[k]
      id == plugin.plugin_name \o <<plugin.plugin_type, IdxStr(k - 1)>>
  IN CountOf(report.supported_plugins,
             LAMBDA m : m.vector_components = <<id>>)
     + CountOf(report.unsupported_plugins,
               LAMBDA u : /\ u.plugin_name = plugin.plugin_name
                          /\ u.plugin_type = plugin.plugin_type
                          /\ u.line_number = plugin.line_number)
     + CountOf(PluginErrors(report.errors),
               LAMBDA e : e.line_number = plugin.line_number)

\* C27: in migrate_config every parsed plugin produces exactly one outcome
\* (one Supported record, or one Unsupported record, or one per-plugin
\* transformation error with the plugin's line number); the three counts
\* add up to the number of plugins, and a returned document has as many
\* components as the report has Supported records.
C27_OneOutcomePerPlugin ==
  (fn = "migrate_config" /\ ret.status = "returned" /\ parse_file_regex(doc).ok) =>
    LET report == ret.report[1]
    IN /\ \A role \in {"inputs", "filters", "outputs"} :
            \A k \in 1..Len(RoleList(doc, role)) :
              OutcomesOf(report, role, k) = 1
       /\ Len(report.supported_plugins) + Len(report.unsupported_plugins)
            + Len(PluginErrors(report.errors))
          = Len(doc.inputs) + Len(doc.filters) + Len(doc.outputs)
       /\ ret.config # <<>> =>
            /\ Len(ret.config[1].sources) + Len(ret.config[1].transforms)
                 + Len(ret.config[1].sinks) = Len(report.supported_plugins)
            /\ \A k \in 1..Len(report.supported_plugins) :
                 report.supported_plugins[k].vector_components[1]
                   \in DictKeys(ret.config[1].sources)
                       \cup DictKeys(ret.config[1].transforms)
                       \cup DictKeys(ret.config[1].sinks)

\* a document was returned for four plugins of which two were translated,
\* one is unsupported and one output's transform raised
C27_Witness ==
  /\ fn = "migrate_config" /\ ret.status = "returned" /\ ret.config # <<>>
  /\ Len(ret.report[1].supported_plugins) = 2
  /\ Len(ret.report[1].unsupported_plugins) = 1
  /\ Len(PluginErrors(ret.report[1].errors)) = 1
  /\ \E k \in 1..Len(doc.outputs) : Fails(doc.outputs[k])


(* ---------------- C28 ---------------- *)

\* the identifiers at the positions before k of a dict
KeysBefore(d, k) == {d[j][1] : j \in 1..(k - 1)}

\* C28: in every document returned by migrate_config or transform_config
\* the wiring is forward-only, hence acyclic: a Transform's inputs name only
\* Sources and Transforms of earlier filter positions, a Sink's inputs name
\* only Sources and Transforms, and no component names itself or a Sink.
\* The three dicts share no identifier, so a name denotes one component.
C28_WiringForwardOnly ==
  Returned_Config =>
    LET c == ret.config[1]
        S == DictKeys(c.sources)
        T == DictKeys(c.transforms)
        K == DictKeys(c.sinks)
    IN /\ S \cap T = {} /\ S \cap K = {} /\ T \cap K = {}
       /\ \A k \in 1..Len(c.sources) : c.sources[k][2].inputs = <<>>
       /\ \A k \in 1..Len(c.transforms) :
            /\ Range(c.transforms[k][2].inputs) \subseteq
                 S \cup KeysBefore(c.transforms, k)
            /\ c.transforms[k][1] \notin Range(c.transforms[k][2].inputs)
       /\ \A k \in 1..Len(c.sinks) :
            /\ Range(c.sinks[k][2].inputs) \subseteq S \cup T
            /\ c.sinks[k][1] \notin Range(c.sinks[k][2].inputs)
       /\ \A comp \in ComponentsOf(c) : Range(comp.inputs) \cap K = {}

\* transform_config returned a document in which the second transform names
\* the first and a sink names a transform
C28_Witness ==
  /\ Returned_Config
  /\ fn = "transform_config"
  /\ Len(ret.config[1].transforms) >= 2
  /\ ret.config[1].transforms[1][1] \in Range(ret.config[1].transforms[2][2].inputs)
  /\ \E k \in 1..Len(ret.config[1].sinks) :
       ret.config[1].transforms[2][1] \in Range(ret.config[1].sinks[k][2].inputs)


(* ---------------- C29 ---------------- *)

\* the kinds of source file for which migrate_config returns a document
\* and a report without errors
Translatable ==
  {kind \in ConfKinds \ {"unreadable"} :
     LET r == migrate_config(ConfDocument(kind))
     IN r.config # <<>> /\ r.report[1].errors = <<>>}

\* the live loop holds the result of migrate_config for the current file
LiveCalled ==
  command = "migrate_directory" /\ ~options.dry_run /\ bpc = "called"

\* C29: in live mode migrate_directory writes a source file's target file
\* if and only if migrate_config returned a document and the report has no
\* error (a declined file never reaches the call); a file with a recorded
\* error is counted as failed and no file holds its translation, even when
\* a document was produced.
C29_WrittenIffCleanDocument ==
  /\ [](command = "migrate_directory" =>
          \A p \in DOMAIN fsys : \A k \in 1..Len(conf_files) :
            fsys[p] = TomlOf(conf_files[k]) =>
              /\ ~options.dry_run
              /\ conf_files[k].kind \in Translatable
              /\ p = OutputPath(conf_files[k], options.output_dir))
  /\ [][/\ (command = "migrate_directory" /\ fsys' # fsys) =>
             /\ bpc = "write" /\ ~options.dry_run
             /\ cur.config # <<>> /\ cur.report[1].errors = <<>>
        /\ (LiveCalled /\ cur.status = "returned") =>
             (bpc' = "write" <=>
                (cur.config # <<>> /\ cur.report[1].errors = <<>>))
        /\ (LiveCalled /\ cur.status = "returned"
              /\ cur.report[1].errors # <<>>) =>
             /\ result'.failed = result.failed + 1
             /\ result'.successful = result.successful
             /\ fsys' = fsys /\ bi' = bi + 1
        /\ (command = "migrate_directory" /\ bpc = "write") =>
             \E outcome \in WriteOutcomes :
               fsys' = WriteText(CurOut, TomlOf(CurFile), outcome)]_vars

\* a live run has finished a file for which a document was produced
\* together with an error: it is counted as failed, its target is absent
C29_Witness ==
  /\ command = "migrate_directory" /\ ~options.dry_run /\ bpc = "file" /\ bi = 2
  /\ conf_files[1].kind = "bad_filter"
  /\ cur.status = "returned" /\ cur.config # <<>> /\ cur.report[1].errors # <<>>
  /\ result.failed = 1
  /\ fsys[OutputPath(conf_files[1], options.output_dir)] = Absent


(* ---------------- C30 ---------------- *)

\* the positions of conf_files for which the loop has computed output_path
PathAssigned ==
  {k \in 1..Len(conf_files) : k < bi \/ (k = bi /\ bpc # "file")}

\* C30: within one migrate_directory run, with or without an output_dir,
\* two different discovered source files never get the same target path,
\* and no step replaces a target file that was written for another source
\* file of the run.
C30_TargetsDistinct ==
  /\ [](command = "migrate_directory" =>
          \A j, k \in PathAssigned :
            j # k => OutputPath(conf_files[j], options.output_dir)
                       # OutputPath(conf_files[k], options.output_dir))
  /\ [][(command = "migrate_directory" /\ fsys' # fsys) =>
          \A k \in 1..Len(conf_files) :
            k # bi => fsys[CurOut] # TomlOf(conf_files[k])]_vars


====
